---- MODULE Spec2Model ----
(***************************************************************************)
(* drf-scoped-permissions: scope catalog, credential model and the         *)
(* authorization decision engine (HasAPIKeyOrGroupScope).                  *)
(*                                                                         *)
(* Strings are TLA+ strings; concatenation, length and slicing are the     *)
(* sequence operators.  Python's None is the value None below, a str is    *)
(* Str(s); an attribute that is not set on an object is a has_* flag.      *)
(***************************************************************************)
EXTENDS Integers, Sequences, FiniteSets, TLC

VARIABLES
    apiKeys,       \* ScopedAPIKey table: key id -> row
    groups,        \* django.contrib.auth Group table: set of group ids
    scopedGroups,  \* ScopedGroup table: group id -> scopes (one row per group)
    userGroups,    \* user.groups: user id -> set of group ids
    superusers,    \* users whose is_superuser flag is set
    urlpatterns,   \* the URL resolver's patterns: sequence of view class names
    pc,            \* "idle" | "permission" | "done": position of the serving process
    call,          \* the call that was just served, with its outcome
    now,           \* timezone.now()
    settings,      \* django.conf.settings: the two settings the package reads
    http,          \* the HTTP request in the authentication/permission pipeline
    legacyKeys,    \* rest_framework_api_key APIKey table: key id -> row
    builders       \* the calls of the catalog functions in progress: caller -> locals

vars ==
    <<apiKeys, groups, scopedGroups, userGroups, superusers, urlpatterns, pc, call,
      now, settings, http, legacyKeys, builders>>

\* the clock, the settings, the pipeline, the legacy key table and the
\* catalog calls in progress
authVars == <<now, settings, http, legacyKeys, builders>>

store == <<apiKeys, groups, scopedGroups, userGroups, superusers, urlpatterns>>

----------------------------------------------------------------------------
(* Bounds *)

\* largest number of scopes an operator puts on one API key
MaxKeyScopes == 2

\* largest number of scopes an operator puts on one group binding
MaxGroupScopes == 1

\* largest number of URL patterns registered with the resolver
MaxPatterns == 3

\* latest time on the clock
MaxTime == 2

----------------------------------------------------------------------------
(* Python values *)

None == [some |-> FALSE, val |-> ""]

Str(s) == [some |-> TRUE, val |-> s]

\* bool(v) for v in {None} \cup str
Truthy(v) == v.some /\ v.val # ""

----------------------------------------------------------------------------
(* str methods *)

UpperChars == "ABCDEFGHIJKLMNOPQRSTUVWXYZ"

LowerChars == "abcdefghijklmnopqrstuvwxyz"

\* the one-character string c, lowercased
LowerChar(c) ==
    IF \E i \in 1..Len(UpperChars) : SubSeq(UpperChars, i, i) = c
    THEN LET i == CHOOSE j \in 1..Len(UpperChars) : SubSeq(UpperChars, j, j) = c
         IN  SubSeq(LowerChars, i, i)
    ELSE c

RECURSIVE lower(_)
\* str.lower()
lower(s) ==
    IF s = "" THEN ""
    ELSE LowerChar(SubSeq(s, 1, 1)) \o lower(SubSeq(s, 2, Len(s)))

\* the one-character string c, uppercased
UpperChar(c) ==
    IF \E i \in 1..Len(LowerChars) : SubSeq(LowerChars, i, i) = c
    THEN LET i == CHOOSE j \in 1..Len(LowerChars) : SubSeq(LowerChars, j, j) = c
         IN  SubSeq(UpperChars, i, i)
    ELSE c

\* c.isupper() or c.islower()
IsCased(c) == LowerChar(c) # c \/ UpperChar(c) # c

RECURSIVE title_from(_, _)
\* the rest of str.title() when the previous character was cased or not
title_from(s, previous_is_cased) ==
    IF s = "" THEN ""
    ELSE LET c == SubSeq(s, 1, 1)
         IN  (IF ~IsCased(c) THEN c
              ELSE IF previous_is_cased THEN LowerChar(c)
              ELSE UpperChar(c))
             \o title_from(SubSeq(s, 2, Len(s)), IsCased(c))

\* str.title(): a cased character is uppercased after an uncased one (or at
\* the start) and lowercased after a cased one
title(s) == title_from(s, FALSE)

\* s.startswith(p)
startswith(s, p) == Len(p) <= Len(s) /\ SubSeq(s, 1, Len(p)) = p

RECURSIVE replace(_, _, _)
\* str.replace(old, new) for a non-empty old: every non-overlapping
\* occurrence, scanning left to right
replace(s, old, new) ==
    IF s = "" THEN ""
    ELSE IF startswith(s, old)
         THEN new \o replace(SubSeq(s, Len(old) + 1, Len(s)), old, new)
         ELSE SubSeq(s, 1, 1) \o replace(SubSeq(s, 2, Len(s)), old, new)

\* f"{resource}.{action}"
ScopeString(resource, action) == resource \o "." \o action

\* code-point order of the characters that occur in names
AsciiChars == "-.0123456789ABCDEFGHIJKLMNOPQRSTUVWXYZ_abcdefghijklmnopqrstuvwxyz"

\* ord(c), up to an order-preserving renumbering
Ord(c) == CHOOSE i \in 1..Len(AsciiChars) : SubSeq(AsciiChars, i, i) = c

RECURSIVE StrLess(_, _)
\* a < b on str
StrLess(a, b) ==
    IF b = "" THEN FALSE
    ELSE IF a = "" THEN TRUE
    ELSE IF SubSeq(a, 1, 1) = SubSeq(b, 1, 1)
         THEN StrLess(SubSeq(a, 2, Len(a)), SubSeq(b, 2, Len(b)))
         ELSE Ord(SubSeq(a, 1, 1)) < Ord(SubSeq(b, 1, 1))

RECURSIVE sorted(_)
\* sorted(S) for a set S of str
sorted(S) ==
    IF S = {} THEN <<>>
    ELSE LET m == CHOOSE x \in S : \A y \in S \ {x} : StrLess(x, y)
         IN  <<m>> \o sorted(S \ {m})

\* the set of elements of a list
Elems(seq) == {seq[i] : i \in 1..Len(seq)}

----------------------------------------------------------------------------
(* The service's views (tests/views.py and tests/urls.py, extended) *)

\* a view class: name is cls.__name__, attrs the handler methods it defines,
\* extra_actions its @action methods, each with its mapping from HTTP
\* method to handler name
View(name, is_viewset, scope_resource, has_rs, rs, has_basename, basename, attrs, extra) ==
    [name |-> name, is_viewset |-> is_viewset, scope_resource |-> scope_resource,
     has_required_scope |-> has_rs, required_scope |-> rs,
     has_basename |-> has_basename, basename |-> basename,
     attrs |-> attrs, extra_actions |-> extra]

ViewClasses ==
    { View("PostViewSet", TRUE, Str("posts"), FALSE, None, TRUE, Str("post"),
           {"list", "retrieve", "create", "update", "partial_update", "destroy"},
           {[attr_name |-> "publish", mapping |-> {[method |-> "POST", handler |-> "publish"]}]}),
      View("UserProfileViewSet", TRUE, Str("profiles"), FALSE, None, TRUE, Str("user-profile"),
           {"list", "retrieve"}, {}),
      View("OrderItemViewSet", TRUE, None, FALSE, None, TRUE, Str("order-item"),
           {"list", "create"}, {}),
      View("ArchiveViewSet", TRUE, Str("archive"), TRUE, Str("posts.read"), TRUE, Str("archive"),
           {"list"}, {}),
      View("StatusViewSet", TRUE, Str("status"), TRUE, None, TRUE, Str("status"),
           {"list"}, {}),
      View("HealthView", FALSE, None, FALSE, None, FALSE, None,
           {}, {}),
      \* a second viewset of the posts resource
      View("PostAdminViewSet", TRUE, Str("posts"), FALSE, None, TRUE, Str("post-admin"),
           {"list"},
           {[attr_name |-> "feature", mapping |-> {[method |-> "POST", handler |-> "feature"]}]}),
      \* a ViewSet with none of the six handlers: its only method, summary,
      \* is bound with as_view({"get": "summary"})
      View("StatsViewSet", TRUE, None, FALSE, None, FALSE, None,
           {}, {}),
      \* @action flag (POST) with @flag.mapping.delete unflag
      View("CommentViewSet", TRUE, Str("comments"), FALSE, None, TRUE, Str("comment"),
           {"list"},
           {[attr_name |-> "flag", mapping |-> {[method |-> "POST", handler |-> "flag"],
                                                [method |-> "DELETE", handler |-> "unflag"]}]}),
      \* @action recent (GET) with @recent.mapping.post create
      View("FeedViewSet", TRUE, Str("feed"), FALSE, None, TRUE, Str("feed"),
           {"create"},
           {[attr_name |-> "recent", mapping |-> {[method |-> "GET", handler |-> "recent"],
                                                  [method |-> "POST", handler |-> "create"]}]}),
      \* a second version of the order items API, with a camel-case resource
      View("OrderItemV2ViewSet", TRUE, Str("orderItem"), FALSE, None, TRUE, Str("order-item-v2"),
           {"list", "destroy"}, {}) }

ViewNames == {v.name : v \in ViewClasses}

ViewOf(name) == CHOOSE v \in ViewClasses : v.name = name

\* the URL configuration of the service
UrlConf ==
    <<"PostViewSet", "UserProfileViewSet", "OrderItemViewSet",
      "ArchiveViewSet", "StatusViewSet", "HealthView">>

----------------------------------------------------------------------------
(* utils.py: the scope catalog *)

get_resource_name(cls) ==
    IF Truthy(cls.scope_resource)
    THEN cls.scope_resource.val
    ELSE lower(replace(cls.name, "ViewSet", ""))

\* the standard actions, with read only for a class that has both list
\* and retrieve
StandardActions_read_needs_both(viewset_class) ==
    (IF "list" \in viewset_class.attrs /\ "retrieve" \in viewset_class.attrs
     THEN {"read"} ELSE {})
    \cup (IF "create" \in viewset_class.attrs THEN {"write"} ELSE {})
    \cup (IF "update" \in viewset_class.attrs \/ "partial_update" \in viewset_class.attrs
          THEN {"write"} ELSE {})
    \cup (IF "destroy" \in viewset_class.attrs THEN {"delete"} ELSE {})

StandardActions(viewset_class) ==
    (IF "list" \in viewset_class.attrs THEN {"read"} ELSE {})
    \cup (IF "retrieve" \in viewset_class.attrs THEN {"read"} ELSE {})
    \cup (IF "create" \in viewset_class.attrs THEN {"write"} ELSE {})
    \cup (IF "update" \in viewset_class.attrs \/ "partial_update" \in viewset_class.attrs
          THEN {"write"} ELSE {})
    \cup (IF "destroy" \in viewset_class.attrs THEN {"delete"} ELSE {})

\* the mapping value itself is added in the custom case
MappedAction_handler_name(attr_name, method) ==
    IF method \in {"list", "retrieve"} THEN "read"
    ELSE IF method \in {"create", "update", "partial_update"} THEN "write"
    ELSE IF method = "destroy" THEN "delete"
    ELSE method

\* what one value of an @action's mapping adds to the actions
MappedAction(attr_name, method) ==
    IF method \in {"list", "retrieve"} THEN "read"
    ELSE IF method \in {"create", "update", "partial_update"} THEN "write"
    ELSE IF method = "destroy" THEN "delete"
    ELSE attr_name

get_viewset_actions(viewset_class) ==
    StandardActions(viewset_class)
    \cup UNION { {MappedAction(a.attr_name, m) : m \in {e.handler : e \in a.mapping}}
                 : a \in viewset_class.extra_actions }

\* scopes[basename] = actions, replacing what an earlier viewset added
AddActions_overwrite(scopes, basename, actions) ==
    [r \in DOMAIN scopes \cup {basename} |->
        IF r = basename THEN actions ELSE scopes[r]]

\* scopes[basename].update(actions), creating the entry when it is missing
AddActions(scopes, basename, actions) ==
    [r \in DOMAIN scopes \cup {basename} |->
        IF r = basename
        THEN (IF r \in DOMAIN scopes THEN scopes[r] ELSE {}) \cup actions
        ELSE scopes[r]]

RECURSIVE extract_scopes(_, _)
\* the walk over the URL patterns: only ViewSets are processed
extract_scopes(url_patterns, scopes) ==
    IF url_patterns = <<>> THEN scopes
    ELSE LET view_class == ViewOf(Head(url_patterns))
         IN  extract_scopes(Tail(url_patterns),
                IF view_class.is_viewset
                THEN AddActions(scopes, get_resource_name(view_class),
                                get_viewset_actions(view_class))
                ELSE scopes)

\* the formatted scope list of one resource
FormatScopes(resource, actions) ==
    LET order == sorted(actions)
    IN  [i \in 1..Len(order) |-> ScopeString(resource, order[i])]

discover_scopes_from_urls(url_patterns) ==
    LET scopes == extract_scopes(url_patterns, <<>>)
    IN  [resource \in DOMAIN scopes |-> FormatScopes(resource, scopes[resource])]

\* apps.get_containing_app_config(view_class.__module__): the views of
\* tests/views.py belong to no installed app, the others to the blog app
get_containing_app_config(view_class) ==
    IF view_class.name \in {"PostAdminViewSet", "CommentViewSet", "FeedViewSet", "StatsViewSet"}
    THEN Str("Blog")
    ELSE None

RECURSIVE extract_app_labels(_, _)
\* app_labels: the label of the first viewset seen for each resource
extract_app_labels(url_patterns, app_labels) ==
    IF url_patterns = <<>> THEN app_labels
    ELSE LET view_class == ViewOf(Head(url_patterns))
             basename == get_resource_name(view_class)
             app_config == get_containing_app_config(view_class)
         IN  extract_app_labels(Tail(url_patterns),
                IF view_class.is_viewset /\ basename \notin DOMAIN app_labels
                THEN [r \in DOMAIN app_labels \cup {basename} |->
                        IF r = basename
                        THEN (IF Truthy(app_config) THEN app_config.val ELSE "Other")
                        ELSE app_labels[r]]
                ELSE app_labels)

discover_scopes_with_apps(url_patterns) ==
    LET scopes == extract_scopes(url_patterns, <<>>)
        app_labels == extract_app_labels(url_patterns, <<>>)
    IN  [resource \in DOMAIN scopes |->
            [app_label |-> app_labels[resource],
             scope_list |-> FormatScopes(resource, scopes[resource])]]

----------------------------------------------------------------------------
(* models.py: the credential model *)

\* has_scope without the unrestricted (empty) case
ScopedAPIKey_has_scope_strict(scopes, required_scope) ==
    required_scope \in scopes

\* ScopedAPIKey.has_scope on a key whose scopes field is `scopes`
ScopedAPIKey_has_scope(scopes, required_scope) ==
    IF scopes = {} THEN TRUE
    ELSE required_scope \in scopes

\* has_scope with the API key's empty-set convention
ScopedGroup_has_scope_legacy(scopes, required_scope) ==
    IF scopes = {} THEN TRUE
    ELSE required_scope \in scopes

\* ScopedGroup.has_scope on a binding whose scopes field is `scopes`
ScopedGroup_has_scope(scopes, required_scope) ==
    required_scope \in scopes

----------------------------------------------------------------------------
(* permissions.py: HasAPIKeyOrGroupScope *)

Users == {"alice"}

is_authenticated(user) == user \in Users

\* ScopedGroup.objects.filter(group__in=user.groups.all()), then the union
\* of the rows' scopes
_get_user_scopes(user) ==
    LET scoped_groups == {g \in DOMAIN scopedGroups : g \in userGroups[user]}
    IN  UNION {scopedGroups[g] : g \in scoped_groups}

\* get_user_scopes where DoesNotExist ends the loop with nothing
get_user_scopes_abort(user) ==
    IF userGroups[user] \subseteq DOMAIN scopedGroups
    THEN UNION {scopedGroups[g] : g \in userGroups[user]}
    ELSE {}

\* utils.get_user_scopes: one lookup per group, DoesNotExist skipped
get_user_scopes(user) ==
    UNION {IF g \in DOMAIN scopedGroups THEN scopedGroups[g] ELSE {} : g \in userGroups[user]}

\* _get_action where the HTTP method table is consulted before view.action
_get_action_method_first(request) ==
    IF request.method \in {"GET", "HEAD", "OPTIONS"} THEN "read"
    ELSE IF request.method \in {"POST", "PUT", "PATCH"} THEN "write"
    ELSE IF request.method = "DELETE" THEN "delete"
    ELSE IF request.has_action /\ Truthy(request.action)
    THEN LET action_name == request.action.val
         IN  IF action_name \in {"list", "retrieve"} THEN "read"
             ELSE IF action_name \in {"create", "update", "partial_update"} THEN "write"
             ELSE IF action_name = "destroy" THEN "delete"
             ELSE action_name
    ELSE "read"

\* _get_action whose table lacks the safe methods HEAD and OPTIONS and
\* whose default is "write"
_get_action_write_default(request) ==
    IF request.has_action /\ Truthy(request.action)
    THEN LET action_name == request.action.val
         IN  IF action_name \in {"list", "retrieve"} THEN "read"
             ELSE IF action_name \in {"create", "update", "partial_update"} THEN "write"
             ELSE IF action_name = "destroy" THEN "delete"
             ELSE action_name
    ELSE IF request.method = "GET" THEN "read"
    ELSE IF request.method = "DELETE" THEN "delete"
    ELSE "write"

_get_action(request) ==
    IF request.has_action /\ Truthy(request.action)
    THEN LET action_name == request.action.val
         IN  IF action_name \in {"list", "retrieve"} THEN "read"
             ELSE IF action_name \in {"create", "update", "partial_update"} THEN "write"
             ELSE IF action_name = "destroy" THEN "delete"
             ELSE action_name
    ELSE IF request.method \in {"GET", "HEAD", "OPTIONS"} THEN "read"
    ELSE IF request.method \in {"POST", "PUT", "PATCH"} THEN "write"
    ELSE IF request.method = "DELETE" THEN "delete"
    ELSE "read"

\* the resource taken from the router basename before scope_resource
EngineResource_basename_first(view) ==
    IF view.has_basename /\ Truthy(view.basename) THEN view.basename
    ELSE view.scope_resource

\* the resource the engine keys the required scope by
EngineResource(view) ==
    IF Truthy(view.scope_resource) THEN view.scope_resource
    ELSE IF view.has_basename THEN view.basename
    ELSE None

\* get_required_scope where the generated scope wins over required_scope
get_required_scope_generated_first(request) ==
    LET view == ViewOf(request.view)
        resource == EngineResource(view)
    IN  IF Truthy(resource) THEN Str(ScopeString(resource.val, _get_action(request)))
        ELSE IF view.has_required_scope THEN view.required_scope
        ELSE None

get_required_scope(request) ==
    LET view == ViewOf(request.view)
    IN  IF view.has_required_scope THEN view.required_scope
        ELSE LET resource == EngineResource(view)
             IN  IF ~Truthy(resource) THEN None
                 ELSE Str(ScopeString(resource.val, _get_action(request)))

_is_api_key_request(request) == request.auth \in DOMAIN apiKeys

\* _check_api_key_permission without the "no scope required" case
_check_api_key_permission_always_required(request) ==
    LET api_key == apiKeys[request.auth]
    IN  IF api_key.scopes = {} THEN TRUE
        ELSE ScopedAPIKey_has_scope(api_key.scopes, get_required_scope(request).val)

_check_api_key_permission(request) ==
    LET api_key == apiKeys[request.auth]
    IN  IF api_key.scopes = {} THEN TRUE
        ELSE LET required_scope == get_required_scope(request)
             IN  IF ~Truthy(required_scope) THEN TRUE
                 ELSE ScopedAPIKey_has_scope(api_key.scopes, required_scope.val)

\* _check_user_permission with the API key's empty-set convention
_check_user_permission_empty_allows(request) ==
    IF request.user \in superusers THEN TRUE
    ELSE LET required_scope == get_required_scope(request)
         IN  IF ~Truthy(required_scope) THEN TRUE
             ELSE LET user_scopes == _get_user_scopes(request.user)
                  IN  IF user_scopes = {} THEN TRUE
                      ELSE required_scope.val \in user_scopes

\* _check_user_permission without the superuser bypass
_check_user_permission_no_bypass(request) ==
    LET required_scope == get_required_scope(request)
    IN  IF ~Truthy(required_scope) THEN TRUE
        ELSE LET user_scopes == _get_user_scopes(request.user)
             IN  IF user_scopes = {} THEN FALSE
                 ELSE required_scope.val \in user_scopes

_check_user_permission(request) ==
    IF request.user \in superusers THEN TRUE
    ELSE LET required_scope == get_required_scope(request)
         IN  IF ~Truthy(required_scope) THEN TRUE
             ELSE LET user_scopes == _get_user_scopes(request.user)
                  IN  IF user_scopes = {} THEN FALSE
                      ELSE required_scope.val \in user_scopes

\* has_permission that lets an unauthenticated request through where no
\* scope is required
has_permission_open_fallthrough(request) ==
    IF _is_api_key_request(request) THEN _check_api_key_permission(request)
    ELSE IF request.user # "None" /\ is_authenticated(request.user)
         THEN _check_user_permission(request)
    ELSE ~Truthy(get_required_scope(request))

\* has_permission that looks at request.user before request.auth
has_permission_user_first(request) ==
    IF request.user # "None" /\ is_authenticated(request.user)
    THEN _check_user_permission(request)
    ELSE IF _is_api_key_request(request) THEN _check_api_key_permission(request)
    ELSE FALSE

has_permission(request) ==
    IF _is_api_key_request(request) THEN _check_api_key_permission(request)
    ELSE IF request.user # "None" /\ is_authenticated(request.user)
         THEN _check_user_permission(request)
    ELSE FALSE

----------------------------------------------------------------------------
(* Inputs *)

KeyIds == {"k1"}

GroupIds == {"A", "B"}

\* the scope strings operators assign to API keys
ScopePool == {"posts.read", "posts.write", "posts.delete"}

\* the scope strings operators assign to group bindings
GroupScopePool == {"posts.read", "posts.delete"}

\* the scope strings has_scope is asked about: assigned ones, one of no
\* catalog, a prefix, a bare resource and a wildcard
ProbeScopes == ScopePool \cup {"anything.anything", "posts.rea", "posts", "posts.*"}

KeyScopeSets == {S \in SUBSET ScopePool : Cardinality(S) <= MaxKeyScopes}

GroupScopeSets == {S \in SUBSET GroupScopePool : Cardinality(S) <= MaxGroupScopes}

Methods == {"GET", "POST", "DELETE"}

\* the routes a router generates for a registered viewset
RouterMethods ==
    [list |-> "GET", create |-> "POST", retrieve |-> "GET", update |-> "PUT",
     partial_update |-> "PATCH", destroy |-> "DELETE"]

\* the (method, view.action) pairs with which a request reaches a view of
\* class v: a routed handler, an @action route, or a method that no handler
\* is mapped to (view.action is None)
Routes(v) ==
    {[method |-> RouterMethods[a], action |-> Str(a)] : a \in v.attrs}
    \cup UNION { {[method |-> e.method, action |-> Str(e.handler)] : e \in x.mapping}
                 : x \in v.extra_actions }
    \cup {[method |-> m, action |-> None] : m \in Methods}

\* request.user: None (set by key authentication), AnonymousUser or a user
RequestUsers == {"None", "AnonymousUser"} \cup Users

Request(auth, user, view, method, has_action, action) ==
    [auth |-> auth, user |-> user, view |-> view, method |-> method,
     has_action |-> has_action, action |-> action]

NoRequest == Request("None", "None", "", "", FALSE, None)

NoCall ==
    [op |-> "none", request |-> NoRequest, key |-> "", group |-> "", user |-> "",
     candidate |-> "", result |-> FALSE, required |-> None,
     scopes |-> {}, scopes2 |-> {}, catalog |-> <<>>, action |-> "",
     with_apps |-> <<>>, dry_run |-> FALSE, migrated |-> 0, skipped |-> 0,
     error |-> FALSE, by_resource |-> <<>>, by_app |-> <<>>]

----------------------------------------------------------------------------
(* API keys: the fields ScopedAPIKey inherits from AbstractAPIKey *)

\* a nullable DateTimeField: NULL or a time
NoTime == [some |-> FALSE, val |-> 0]

At(t) == [some |-> TRUE, val |-> t]

\* the plaintext key handed out once when key k is created: prefix.secret
KeySecret == [k1 |-> "p1.s1"]

\* the display name the operator gives key k
KeyName == [k1 |-> "Test Key"]

RECURSIVE BeforeDot(_)
\* key.partition(".")[0]
BeforeDot(key) ==
    IF key = "" \/ SubSeq(key, 1, 1) = "." THEN ""
    ELSE SubSeq(key, 1, 1) \o BeforeDot(SubSeq(key, 2, Len(key)))

\* the key hasher: a collision-free digest of the plaintext key
Hash(key) == "sha512$$" \o key

\* the row create_key stores: not revoked, no expiry, never used
NewKey(k, S) ==
    [scopes |-> S, name |-> KeyName[k], created |-> now,
     prefix |-> BeforeDot(KeySecret[k]), hashed_key |-> Hash(KeySecret[k]),
     revoked |-> FALSE, expiry_date |-> NoTime, last_used_at |-> NoTime]

\* the prefixes stored in a key table; the column is unique
Prefixes(keys) == {keys[k].prefix : k \in DOMAIN keys}

\* SCOPED_API_KEY_AUTH_KEYWORD and SCOPED_PERMISSIONS_TRACK_LAST_USED as
\* they are when neither is set
DefaultSettings == [keyword |-> None, track_last_used |-> FALSE]

\* no request in the pipeline.  result is what authenticate did ("None",
\* "AuthenticationFailed" or "ok"), validated and key whether and with
\* which secret authenticate_credentials was called, auth and user
\* request.auth and request.user, checked and allowed the permission
\* check, response the outcome of the request
NoHttp ==
    [header |-> "", result |-> "", validated |-> FALSE, key |-> "", detail |-> "",
     auth |-> "None", user |-> "None", checked |-> FALSE, allowed |-> FALSE,
     response |-> "", loaded |-> <<>>, write_failed |-> FALSE]

----------------------------------------------------------------------------
(* authentication.py: APIKeyAuthentication *)

Whitespace == {" ", "\t"}

RECURSIVE lstrip(_)
\* s without its leading whitespace
lstrip(s) ==
    IF s # "" /\ SubSeq(s, 1, 1) \in Whitespace THEN lstrip(SubSeq(s, 2, Len(s))) ELSE s

RECURSIVE FirstWord(_)
\* the characters of s before its first whitespace character
FirstWord(s) ==
    IF s = "" \/ SubSeq(s, 1, 1) \in Whitespace THEN ""
    ELSE SubSeq(s, 1, 1) \o FirstWord(SubSeq(s, 2, Len(s)))

\* s.split(None, 1): at most two parts, split at the first run of
\* whitespace; leading whitespace and a trailing run after a single word
\* are dropped
split_once(s) ==
    LET body == lstrip(s)
        word == FirstWord(body)
        rest == lstrip(SubSeq(body, Len(word) + 1, Len(body)))
    IN  IF body = "" THEN <<>>
        ELSE IF rest = "" THEN <<word>>
        ELSE <<word, rest>>

\* the keyword class attribute, fixed when the module is imported
Keyword(conf) == IF Truthy(conf.keyword) THEN conf.keyword.val ELSE "Api-Key"

\* ScopedAPIKey.objects.get_from_key(key): the usable (not revoked) key
\* with the prefix of key, if key verifies against its hash; or
\* "DoesNotExist"
get_from_key(keys, key) ==
    LET prefix == BeforeDot(key)
        usable == {k \in DOMAIN keys : ~keys[k].revoked}
        found == {k \in usable : keys[k].prefix = prefix}
    IN  IF found = {} THEN "DoesNotExist"
        ELSE LET k == CHOOSE x \in found : TRUE
             IN  IF keys[k].hashed_key = Hash(key) THEN k ELSE "DoesNotExist"

\* api_key.has_expired at time t
has_expired(api_key, t) == api_key.expiry_date.some /\ api_key.expiry_date.val < t

\* Model.save() of the in-memory object obj over row k, all columns
save_all_fields(keys, k, obj, update_fields) == [keys EXCEPT ![k] = obj]

\* Model.save(update_fields=...) of the in-memory object obj over row k:
\* only the named columns are written
save(keys, k, obj, update_fields) ==
    [keys EXCEPT ![k] = [f \in DOMAIN keys[k] |->
                            IF f \in update_fields THEN obj[f] ELSE keys[k][f]]]

\* api_key.update_last_used() at time t
update_last_used(keys, k, t) == [keys EXCEPT ![k].last_used_at = At(t)]

\* what authenticate returns or raises, and the key table it leaves
AuthResult(result, validated, key, detail, auth, keys) ==
    [result |-> result, validated |-> validated, key |-> key, detail |-> detail,
     auth |-> auth, keys |-> keys]

\* authenticate_credentials without the has_expired test
authenticate_credentials_no_expiry(key, keys, conf, t) ==
    LET api_key == get_from_key(keys, key)
    IN  IF api_key = "DoesNotExist"
        THEN AuthResult("AuthenticationFailed", TRUE, key, "Invalid API key", "None", keys)
        ELSE IF keys[api_key].revoked
        THEN AuthResult("AuthenticationFailed", TRUE, key, "API key has been revoked", "None", keys)
        ELSE IF conf.track_last_used
        THEN AuthResult("ok", TRUE, key, "", api_key, update_last_used(keys, api_key, t))
        ELSE AuthResult("ok", TRUE, key, "", api_key, keys)

\* authenticate_credentials with update_last_used on every key it finds,
\* whatever the setting and before the expiry test
authenticate_credentials_always_tracks(key, keys, conf, t) ==
    LET api_key == get_from_key(keys, key)
    IN  IF api_key = "DoesNotExist"
        THEN AuthResult("AuthenticationFailed", TRUE, key, "Invalid API key", "None", keys)
        ELSE IF keys[api_key].revoked
        THEN AuthResult("AuthenticationFailed", TRUE, key, "API key has been revoked", "None", keys)
        ELSE IF has_expired(keys[api_key], t)
        THEN AuthResult("AuthenticationFailed", TRUE, key, "API key has expired", "None",
                        update_last_used(keys, api_key, t))
        ELSE AuthResult("ok", TRUE, key, "", api_key, update_last_used(keys, api_key, t))

authenticate_credentials(key, keys, conf, t) ==
    LET api_key == get_from_key(keys, key)
    IN  IF api_key = "DoesNotExist"
        THEN AuthResult("AuthenticationFailed", TRUE, key, "Invalid API key", "None", keys)
        ELSE IF keys[api_key].revoked
        THEN AuthResult("AuthenticationFailed", TRUE, key, "API key has been revoked", "None", keys)
        ELSE IF has_expired(keys[api_key], t)
        THEN AuthResult("AuthenticationFailed", TRUE, key, "API key has expired", "None", keys)
        ELSE IF conf.track_last_used
        THEN AuthResult("ok", TRUE, key, "", api_key, update_last_used(keys, api_key, t))
        ELSE AuthResult("ok", TRUE, key, "", api_key, keys)

\* authenticate comparing the scheme token with the keyword as written
authenticate_case_sensitive(auth_header, keys, conf, t) ==
    IF auth_header = "" THEN AuthResult("None", FALSE, "", "", "None", keys)
    ELSE LET parts == split_once(auth_header)
         IN  IF Len(parts) # 2 THEN AuthResult("None", FALSE, "", "", "None", keys)
             ELSE IF parts[1] # Keyword(conf)
             THEN AuthResult("None", FALSE, "", "", "None", keys)
             ELSE authenticate_credentials(parts[2], keys, conf, t)

\* authenticate(request) for request.META["HTTP_AUTHORIZATION"] =
\* auth_header ("" when the header is missing).  With an empty header the
\* custom-header lookup is getattr on the META dict, which is always None
authenticate(auth_header, keys, conf, t) ==
    IF auth_header = "" THEN AuthResult("None", FALSE, "", "", "None", keys)
    ELSE LET parts == split_once(auth_header)
         IN  IF Len(parts) # 2 THEN AuthResult("None", FALSE, "", "", "None", keys)
             ELSE IF lower(parts[1]) # lower(Keyword(conf))
             THEN AuthResult("None", FALSE, "", "", "None", keys)
             ELSE authenticate_credentials(parts[2], keys, conf, t)

----------------------------------------------------------------------------
(* Callers of the catalog functions: the admin forms of concurrent requests
   and the list_scopes command *)

Callers == {"c1", "c2"}

\* a caller's frame: which function runs, the index of the pattern the loop
\* is at, the local dicts scopes and app_labels, and the value returned
NoBuild ==
    [pc |-> "idle", kind |-> "", pos |-> 0, scopes |-> <<>>, app_labels |-> <<>>,
     result |-> <<>>]

----------------------------------------------------------------------------
(* Initial state: empty tables, the URL configuration loaded *)

Init ==
    /\ apiKeys = <<>>
    /\ groups = {}
    /\ scopedGroups = <<>>
    /\ userGroups = [u \in Users |-> {}]
    /\ superusers = {}
    /\ urlpatterns = UrlConf
    /\ pc = "idle"
    /\ call = NoCall
    /\ now = 0
    /\ settings = DefaultSettings
    /\ http = NoHttp
    /\ legacyKeys = <<>>
    /\ builders = [c \in Callers |-> NoBuild]

\* f with the entry for k set to v
Put(f, k, v) == [x \in DOMAIN f \cup {k} |-> IF x = k THEN v ELSE f[x]]

\* f without the entry for k
Drop(f, k) == [x \in DOMAIN f \ {k} |-> f[x]]

----------------------------------------------------------------------------
(* Operator actions on the credential store *)

\* ScopedAPIKey.objects.create_key(name=..., scopes=...)
CreateKey(k, S) ==
    /\ pc = "idle"
    /\ k \notin DOMAIN apiKeys
    /\ BeforeDot(KeySecret[k]) \notin Prefixes(apiKeys)
    /\ apiKeys' = Put(apiKeys, k, NewKey(k, S))
    /\ UNCHANGED <<groups, scopedGroups, userGroups, superusers, urlpatterns, pc, call>>
    /\ UNCHANGED authVars

\* the admin form saves a key's scopes
EditKeyScopes(k, S) ==
    /\ pc = "idle"
    /\ k \in DOMAIN apiKeys
    /\ apiKeys[k].scopes # S
    /\ apiKeys' = [apiKeys EXCEPT ![k].scopes = S]
    /\ UNCHANGED <<groups, scopedGroups, userGroups, superusers, urlpatterns, pc, call>>
    /\ UNCHANGED authVars

DeleteKey(k) ==
    /\ pc = "idle"
    /\ k \in DOMAIN apiKeys
    /\ apiKeys' = Drop(apiKeys, k)
    /\ UNCHANGED <<groups, scopedGroups, userGroups, superusers, urlpatterns, pc, call>>
    /\ UNCHANGED authVars

CreateGroup(g) ==
    /\ pc = "idle"
    /\ g \notin groups
    /\ groups' = groups \cup {g}
    /\ UNCHANGED <<apiKeys, scopedGroups, userGroups, superusers, urlpatterns, pc, call>>
    /\ UNCHANGED authVars

\* deleting a Group where the ScopedGroup row is left behind
DeleteGroup_no_cascade(g) ==
    /\ pc = "idle"
    /\ g \in groups
    /\ groups' = groups \ {g}
    /\ userGroups' = [u \in Users |-> userGroups[u] \ {g}]
    /\ UNCHANGED <<apiKeys, scopedGroups, superusers, urlpatterns, pc, call>>
    /\ UNCHANGED authVars

\* deleting a Group deletes its ScopedGroup row (on_delete=CASCADE) and its
\* membership rows
DeleteGroup(g) ==
    /\ pc = "idle"
    /\ g \in groups
    /\ groups' = groups \ {g}
    /\ scopedGroups' = Drop(scopedGroups, g)
    /\ userGroups' = [u \in Users |-> userGroups[u] \ {g}]
    /\ UNCHANGED <<apiKeys, superusers, urlpatterns, pc, call>>
    /\ UNCHANGED authVars

\* ScopedGroup.objects.create(group=g, scopes=S): one row per group
CreateScopedGroup(g, S) ==
    /\ pc = "idle"
    /\ g \in groups
    /\ g \notin DOMAIN scopedGroups
    /\ scopedGroups' = Put(scopedGroups, g, S)
    /\ UNCHANGED <<apiKeys, groups, userGroups, superusers, urlpatterns, pc, call>>
    /\ UNCHANGED authVars

EditScopedGroup(g, S) ==
    /\ pc = "idle"
    /\ g \in DOMAIN scopedGroups
    /\ scopedGroups[g] # S
    /\ scopedGroups' = [scopedGroups EXCEPT ![g] = S]
    /\ UNCHANGED <<apiKeys, groups, userGroups, superusers, urlpatterns, pc, call>>
    /\ UNCHANGED authVars

DeleteScopedGroup(g) ==
    /\ pc = "idle"
    /\ g \in DOMAIN scopedGroups
    /\ scopedGroups' = Drop(scopedGroups, g)
    /\ UNCHANGED <<apiKeys, groups, userGroups, superusers, urlpatterns, pc, call>>
    /\ UNCHANGED authVars

\* user.groups.add(g)
AddUserToGroup(u, g) ==
    /\ pc = "idle"
    /\ g \in groups
    /\ g \notin userGroups[u]
    /\ userGroups' = [userGroups EXCEPT ![u] = @ \cup {g}]
    /\ UNCHANGED <<apiKeys, groups, scopedGroups, superusers, urlpatterns, pc, call>>
    /\ UNCHANGED authVars

\* user.groups.remove(g)
RemoveUserFromGroup(u, g) ==
    /\ pc = "idle"
    /\ g \in userGroups[u]
    /\ userGroups' = [userGroups EXCEPT ![u] = @ \ {g}]
    /\ UNCHANGED <<apiKeys, groups, scopedGroups, superusers, urlpatterns, pc, call>>
    /\ UNCHANGED authVars

\* user.is_superuser = b
SetSuperuser(u, b) ==
    /\ pc = "idle"
    /\ (u \in superusers) # b
    /\ superusers' = IF b THEN superusers \cup {u} ELSE superusers \ {u}
    /\ UNCHANGED <<apiKeys, groups, scopedGroups, userGroups, urlpatterns, pc, call>>
    /\ UNCHANGED authVars

----------------------------------------------------------------------------
(* Calls served by the process; each is evaluated on the current store *)

\* key.has_scope(s) on a stored key
KeyHasScope(k, s) ==
    /\ pc = "idle"
    /\ k \in DOMAIN apiKeys
    /\ call' = [NoCall EXCEPT !.op = "key.has_scope", !.key = k, !.candidate = s,
                              !.result = ScopedAPIKey_has_scope(apiKeys[k].scopes, s)]
    /\ pc' = "done"
    /\ UNCHANGED store
    /\ UNCHANGED authVars

\* group.scoped_group.has_scope(s) on a stored binding
GroupHasScope(g, s) ==
    /\ pc = "idle"
    /\ g \in DOMAIN scopedGroups
    /\ call' = [NoCall EXCEPT !.op = "group.has_scope", !.group = g, !.candidate = s,
                              !.result = ScopedGroup_has_scope(scopedGroups[g], s)]
    /\ pc' = "done"
    /\ UNCHANGED store
    /\ UNCHANGED authVars

\* both resolvers of a user's scopes
GetUserScopes(u) ==
    /\ pc = "idle"
    /\ call' = [NoCall EXCEPT !.op = "get_user_scopes", !.user = u,
                              !.scopes = _get_user_scopes(u),
                              !.scopes2 = get_user_scopes(u)]
    /\ pc' = "done"
    /\ UNCHANGED store
    /\ UNCHANGED authVars

\* discover_scopes_from_urls() and discover_scopes_with_apps()
DiscoverScopes ==
    /\ pc = "idle"
    /\ call' = [NoCall EXCEPT !.op = "discover_scopes",
                              !.catalog = discover_scopes_from_urls(urlpatterns),
                              !.with_apps = discover_scopes_with_apps(urlpatterns)]
    /\ pc' = "done"
    /\ UNCHANGED store
    /\ UNCHANGED authVars

\* a request routed to a registered view reaches the permission check:
\* request.auth is a stored key or None; request.user is None or a user
\* next to a key (the key authenticator returns no user; another
\* authenticator may have set one), else None, AnonymousUser or a user
HasPermission(auth, user, name, route) ==
    /\ pc = "idle"
    /\ auth \in DOMAIN apiKeys \cup {"None"}
    /\ auth # "None" => user # "AnonymousUser"
    /\ name \in Elems(urlpatterns)
    /\ LET view == ViewOf(name)
           request == Request(auth, user, name, route.method, view.is_viewset, route.action)
       IN  /\ route \in Routes(view)
           /\ call' = [NoCall EXCEPT !.op = "has_permission", !.request = request,
                                     !.required = get_required_scope(request),
                                     !.result = has_permission(request)]
    /\ pc' = "done"
    /\ UNCHANGED store
    /\ UNCHANGED authVars

\* the call returns
Return ==
    /\ pc = "done"
    /\ pc' = "idle"
    /\ call' = NoCall
    /\ UNCHANGED store
    /\ UNCHANGED authVars

Next ==
    \/ \E k \in KeyIds, S \in KeyScopeSets : CreateKey(k, S)
    \/ \E k \in KeyIds, S \in KeyScopeSets : EditKeyScopes(k, S)
    \/ \E k \in KeyIds : DeleteKey(k)
    \/ \E g \in GroupIds : CreateGroup(g)
    \/ \E g \in GroupIds : DeleteGroup(g)
    \/ \E g \in GroupIds, S \in GroupScopeSets : CreateScopedGroup(g, S)
    \/ \E g \in GroupIds, S \in GroupScopeSets : EditScopedGroup(g, S)
    \/ \E g \in GroupIds : DeleteScopedGroup(g)
    \/ \E u \in Users, g \in GroupIds : AddUserToGroup(u, g)
    \/ \E u \in Users, g \in GroupIds : RemoveUserFromGroup(u, g)
    \/ \E u \in Users, b \in BOOLEAN : SetSuperuser(u, b)
    \/ \E k \in KeyIds, s \in ProbeScopes : KeyHasScope(k, s)
    \/ \E g \in GroupIds, s \in ProbeScopes : GroupHasScope(g, s)
    \/ \E u \in Users : GetUserScopes(u)
    \/ DiscoverScopes
    \/ \E auth \in KeyIds \cup {"None"}, user \in RequestUsers, name \in ViewNames,
          route \in UNION {Routes(v) : v \in ViewClasses} :
            HasPermission(auth, user, name, route)
    \/ Return

Spec == Init /\ [][Next]_vars

----------------------------------------------------------------------------
(* Properties *)

\* the call just served is has_permission for a request whose auth object
\* is a stored ScopedAPIKey
KeyDecision == call.op = "has_permission" /\ call.request.auth \in DOMAIN apiKeys

\* the call just served is has_permission for a request without a key
\* whose user is an authenticated user
UserDecision ==
    /\ call.op = "has_permission"
    /\ call.request.auth \notin DOMAIN apiKeys
    /\ call.request.user \in Users

\* the union of the scope sets of the bindings of the groups u belongs to
GroupScopeUnion(u) ==
    {s \in GroupScopePool : \E g \in userGroups[u] : g \in DOMAIN scopedGroups /\ s \in scopedGroups[g]}

\* C1: ScopedAPIKey.has_scope(s) is true for every s when the key's scope
\* set is empty, and otherwise true exactly when s is an element of the set
\* (string equality; a prefix, a bare resource or a wildcard does not match).
C1_KeyHasScope ==
    call.op = "key.has_scope" =>
        LET scopes == apiKeys[call.key].scopes
        IN  /\ scopes = {} => call.result = TRUE
            /\ scopes # {} => (call.result <=> \E x \in scopes : x = call.candidate)

C1_Witness ==
    /\ call.op = "key.has_scope"
    /\ apiKeys[call.key].scopes = {}
    /\ call.candidate = "anything.anything"
    /\ call.result = TRUE

\* C2: ScopedGroup.has_scope(s) is true exactly when s is an element of the
\* binding's scope set; on an empty binding it is false for every s.
C2_GroupHasScope ==
    call.op = "group.has_scope" =>
        LET scopes == scopedGroups[call.group]
        IN  /\ call.result <=> \E x \in scopes : x = call.candidate
            /\ scopes = {} => call.result = FALSE

C2_Witness ==
    /\ call.op = "group.has_scope"
    /\ scopedGroups[call.group] = {}
    /\ call.candidate = "posts.read"
    /\ call.result = FALSE

\* C3: a request whose principal is an API key is allowed exactly when the
\* required scope is absent or the key has it (an empty key has every
\* scope); a key scoped to {posts.read, posts.write} is allowed on list and
\* create and denied on destroy and publish of the posts viewset, and a key
\* with an empty scope set is allowed everywhere.
C3_KeyPolicy ==
    KeyDecision =>
        LET scopes == apiKeys[call.request.auth].scopes
            posts  == call.request.view = "PostViewSet"
        IN  /\ call.result <=>
                   \/ ~Truthy(call.required)
                   \/ scopes = {}
                   \/ call.required.val \in scopes
            /\ scopes = {} => call.result
            /\ (posts /\ scopes = {"posts.read", "posts.write"}) =>
                   /\ call.request.action \in {Str("list"), Str("create")} => call.result
                   /\ call.request.action \in {Str("destroy"), Str("publish")} => ~call.result

C3_Witness ==
    /\ KeyDecision
    /\ apiKeys[call.request.auth].scopes = {"posts.read", "posts.write"}
    /\ call.request.view = "PostViewSet"
    /\ call.request.action = Str("publish")
    /\ call.result = FALSE

\* C4: an authenticated non-superuser without a key is allowed when the
\* required scope is absent; otherwise denied when the union of the user's
\* group scopes is empty, and allowed exactly when the required scope is in
\* that union when it is not.
C4_UserPolicy ==
    (UserDecision /\ call.request.user \notin superusers) =>
        LET union == GroupScopeUnion(call.request.user)
        IN  /\ ~Truthy(call.required) => call.result
            /\ (Truthy(call.required) /\ union = {}) => ~call.result
            /\ (Truthy(call.required) /\ union # {}) =>
                   (call.result <=> call.required.val \in union)

C4_Witness ==
    /\ UserDecision
    /\ call.request.user \notin superusers
    /\ userGroups[call.request.user] = {"A", "B"}
    /\ "A" \notin DOMAIN scopedGroups
    /\ "B" \in DOMAIN scopedGroups /\ scopedGroups["B"] = {}
    /\ Truthy(call.required)
    /\ call.result = FALSE

\* C5: a superuser without a key is allowed on every operation, whatever
\* the required scope and whatever the user's groups and their bindings.
C5_SuperuserBypass ==
    (UserDecision /\ call.request.user \in superusers) => call.result

C5_Witness ==
    /\ UserDecision
    /\ call.request.user \in superusers
    /\ userGroups[call.request.user] = {}
    /\ call.required = Str("posts.delete")
    /\ call.result = TRUE

\* C6: a request with neither a ScopedAPIKey nor an authenticated user is
\* denied on every view and method, also where no scope is required.
C6_DenyByDefault ==
    (/\ call.op = "has_permission"
     /\ call.request.auth \notin DOMAIN apiKeys
     /\ call.request.user \notin Users) => ~call.result

C6_Witness ==
    /\ call.op = "has_permission"
    /\ call.request.auth = "None"
    /\ call.request.user = "AnonymousUser"
    /\ call.request.view = "HealthView"
    /\ ~Truthy(call.required)
    /\ call.result = FALSE

\* C7: both resolvers return the union of the scope sets of the bindings of
\* the user's groups, groups without a binding adding nothing; a user in
\* A {posts.read} and B {posts.delete} gets posts.read and posts.delete and
\* not posts.write.
C7_UserScopesUnion ==
    call.op = "get_user_scopes" =>
        /\ call.scopes = GroupScopeUnion(call.user)
        /\ call.scopes2 = GroupScopeUnion(call.user)
        /\ (/\ userGroups[call.user] = {"A", "B"}
            /\ DOMAIN scopedGroups = {"A", "B"}
            /\ scopedGroups["A"] = {"posts.read"}
            /\ scopedGroups["B"] = {"posts.delete"})
           => /\ "posts.read" \in call.scopes /\ "posts.delete" \in call.scopes
              /\ "posts.write" \notin call.scopes

C7_Witness ==
    /\ call.op = "get_user_scopes"
    /\ userGroups[call.user] = {"A", "B"}
    /\ DOMAIN scopedGroups = {"A", "B"}
    /\ scopedGroups["A"] = {"posts.read"}
    /\ scopedGroups["B"] = {"posts.delete"}
    /\ call.scopes = {"posts.read", "posts.delete"}
    /\ call.scopes2 = {"posts.read", "posts.delete"}

\* the view class of the request just decided
DecidedView == ViewOf(call.request.view)

\* the names other than R a viewset with override R could be keyed by: the
\* router basename and the name derived from the class
OtherNames(v) ==
    ({lower(replace(v.name, "ViewSet", ""))}
     \cup (IF v.has_basename /\ Truthy(v.basename) THEN {v.basename.val} ELSE {}))
    \ {v.scope_resource.val}

\* the catalog half of C8: every registered viewset with override R has its
\* actions published under key R as R.action, and not under its basename or
\* derived name (unless another registered viewset resolves to that name)
CatalogKeyedByOverride ==
    call.op = "discover_scopes" =>
        \A name \in Elems(urlpatterns) :
            LET v == ViewOf(name)
            IN  (v.is_viewset /\ Truthy(v.scope_resource)) =>
                    LET R == v.scope_resource.val
                    IN  /\ R \in DOMAIN call.catalog
                        /\ \A x \in Elems(call.catalog[R]) : startswith(x, R \o ".")
                        /\ \A a \in get_viewset_actions(v) :
                               (R \o "." \o a) \in Elems(call.catalog[R])
                        /\ \A K \in OtherNames(v) :
                               K \in DOMAIN call.catalog =>
                                   \E n2 \in Elems(urlpatterns) :
                                       /\ n2 # name
                                       /\ ViewOf(n2).is_viewset
                                       /\ get_resource_name(ViewOf(n2)) = K

\* the required scope of the request just decided is R.action for the
\* view's override R, and not keyed by another name of the view
EngineKeyedByOverride ==
    LET R == DecidedView.scope_resource.val
    IN  /\ Truthy(call.required)
        /\ startswith(call.required.val, R \o ".")
        /\ Len(call.required.val) > Len(R) + 1
        /\ \A K \in OtherNames(DecidedView) : ~startswith(call.required.val, K \o ".")

\* C8 as stated: for every operation with an explicit resource override R
\* the catalog publishes its scopes under R as R.action and the engine's
\* required scope is R.action.
C8_Original ==
    /\ CatalogKeyedByOverride
    /\ (call.op = "has_permission" /\ Truthy(DecidedView.scope_resource))
           => EngineKeyedByOverride

\* C8 (amended): for every operation with an explicit resource override R
\* and no explicit required-scope override, the catalog publishes its
\* scopes under R as R.action and the engine's required scope is R.action,
\* never keyed by the router basename or the class-derived name.
C8_OverrideConsistent ==
    /\ CatalogKeyedByOverride
    /\ (/\ call.op = "has_permission"
        /\ Truthy(DecidedView.scope_resource)
        /\ ~DecidedView.has_required_scope)
           => EngineKeyedByOverride

C8_Witness ==
    /\ call.op = "has_permission"
    /\ call.request.view = "UserProfileViewSet"
    /\ call.request.action = Str("retrieve")
    /\ call.required = Str("profiles.read")

\* C9: for every operation without an explicit required-scope override, the
\* required scope the engine computes for a supported action is one of the
\* scope strings the catalog published for that operation (under the
\* resource name the catalog build resolves).
C9_EngineMatchesCatalog ==
    (/\ call.op = "has_permission"
     /\ DecidedView.is_viewset
     /\ ~DecidedView.has_required_scope
     /\ Truthy(call.request.action))
        => LET catalog == discover_scopes_from_urls(urlpatterns)
               resource == get_resource_name(DecidedView)
           IN  /\ Truthy(call.required)
               /\ resource \in DOMAIN catalog
               /\ call.required.val \in Elems(catalog[resource])

\* C10: a view's explicit required_scope is the required scope of every
\* request to it, whatever the method and the action, and whatever the
\* resource name and action resolution would give.
C10_ExplicitScopeVerbatim ==
    (call.op = "has_permission" /\ DecidedView.has_required_scope)
        => call.required = DecidedView.required_scope

C10_Witness ==
    /\ call.op = "has_permission"
    /\ call.request.view = "ArchiveViewSet"
    /\ call.request.method = "DELETE"
    /\ ~Truthy(call.request.action)
    /\ call.required = Str("posts.read")

----------------------------------------------------------------------------
(* Action resolution on its own: _get_action over methods and view.action *)

\* request.method: the methods of the table and three it does not list
AllMethods ==
    {"GET", "HEAD", "OPTIONS", "POST", "PUT", "PATCH", "DELETE", "TRACE", "CONNECT", "PURGE"}

CrudActions == {"list", "retrieve", "create", "update", "partial_update", "destroy"}

\* view.action: None, the empty string, a CRUD handler or a custom action
ActionValues ==
    {None, Str("")} \cup {Str(a) : a \in CrudActions \cup {"publish", "unpublish", "metadata"}}

\* self._get_action(request, view) for a view with or without an action
\* attribute
GetAction(method, has_action, action) ==
    /\ pc = "idle"
    /\ ~has_action => action = None
    /\ LET request == Request("None", "None", "", method, has_action, action)
       IN  call' = [NoCall EXCEPT !.op = "_get_action", !.request = request,
                                  !.action = _get_action(request)]
    /\ pc' = "done"
    /\ UNCHANGED store
    /\ UNCHANGED authVars

NextAction ==
    \/ \E method \in AllMethods, has_action \in BOOLEAN, action \in ActionValues :
          GetAction(method, has_action, action)
    \/ Return

SpecAction == Init /\ [][NextAction]_vars

\* the call just served resolved the action from a non-empty view.action
FromViewAction ==
    call.op = "_get_action" /\ call.request.has_action /\ Truthy(call.request.action)

\* C11: with a non-empty view.action, list and retrieve resolve to read,
\* create, update and partial_update to write, destroy to delete, and any
\* other identifier to itself, whatever the HTTP method.
C11_ActionFromViewAction ==
    FromViewAction =>
        LET a == call.request.action.val
        IN  /\ a \in {"list", "retrieve"} => call.action = "read"
            /\ a \in {"create", "update", "partial_update"} => call.action = "write"
            /\ a = "destroy" => call.action = "delete"
            /\ a \notin CrudActions => call.action = a

C11_Witness ==
    /\ FromViewAction
    /\ call.request.action = Str("publish")
    /\ call.request.method = "DELETE"
    /\ call.action = "publish"

\* C12: without a view.action the action comes from the HTTP method: GET,
\* HEAD and OPTIONS give read, POST, PUT and PATCH write, DELETE delete, and
\* every other method read.
C12_ActionFromMethod ==
    (call.op = "_get_action" /\ ~FromViewAction) =>
        LET m == call.request.method
        IN  /\ m \in {"GET", "HEAD", "OPTIONS"} => call.action = "read"
            /\ m \in {"POST", "PUT", "PATCH"} => call.action = "write"
            /\ m = "DELETE" => call.action = "delete"
            /\ m \notin {"GET", "HEAD", "OPTIONS", "POST", "PUT", "PATCH", "DELETE"}
                   => call.action = "read"

C12_Witness ==
    /\ call.op = "_get_action"
    /\ ~call.request.has_action
    /\ call.request.method = "PURGE"
    /\ call.action = "read"

----------------------------------------------------------------------------
(* The catalog over every URL configuration of at most MaxPatterns patterns *)

InitCatalog ==
    /\ apiKeys = <<>>
    /\ groups = {}
    /\ scopedGroups = <<>>
    /\ userGroups = [u \in Users |-> {}]
    /\ superusers = {}
    /\ urlpatterns = <<>>
    /\ pc = "idle"
    /\ call = NoCall
    /\ now = 0
    /\ settings = DefaultSettings
    /\ http = NoHttp
    /\ legacyKeys = <<>>
    /\ builders = [c \in Callers |-> NoBuild]

\* the views a URL configuration is assembled from
RegistrableViews ==
    {"PostViewSet", "PostAdminViewSet", "StatsViewSet", "CommentViewSet", "FeedViewSet",
     "OrderItemViewSet", "HealthView"}

\* a view is registered: its pattern is appended to the resolver's list
RegisterView(name) ==
    /\ pc = "idle"
    /\ Len(urlpatterns) < MaxPatterns
    /\ urlpatterns' = Append(urlpatterns, name)
    /\ UNCHANGED <<apiKeys, groups, scopedGroups, userGroups, superusers, pc, call>>
    /\ UNCHANGED authVars

NextCatalog ==
    \/ \E name \in RegistrableViews : RegisterView(name)
    \/ DiscoverScopes
    \/ Return

SpecCatalog == InitCatalog /\ [][NextCatalog]_vars

\* the registered viewset classes, and those of resource R
RegisteredViewSets == {v \in {ViewOf(n) : n \in Elems(urlpatterns)} : v.is_viewset}

ViewSetsOf(R) == {v \in RegisteredViewSets : get_resource_name(v) = R}

\* C13: at a catalog build every registered viewset publishes read when it
\* has list or retrieve, write when it has create, update or partial_update,
\* delete when it has destroy, and the name of each custom action; every
\* published string is resource "." action under the key resource; a Posts
\* viewset with the CRUD handlers and publish yields exactly posts.read,
\* posts.write, posts.delete and posts.publish.
C13_CatalogBuild ==
    call.op = "discover_scopes" =>
        /\ \A v \in RegisteredViewSets :
              LET R == get_resource_name(v)
              IN  /\ R \in DOMAIN call.catalog
                  /\ v.attrs \cap {"list", "retrieve"} # {}
                        => (R \o ".read") \in Elems(call.catalog[R])
                  /\ v.attrs \cap {"create", "update", "partial_update"} # {}
                        => (R \o ".write") \in Elems(call.catalog[R])
                  /\ "destroy" \in v.attrs
                        => (R \o ".delete") \in Elems(call.catalog[R])
                  /\ \A x \in v.extra_actions :
                        (R \o "." \o x.attr_name) \in Elems(call.catalog[R])
        /\ \A R \in DOMAIN call.catalog :
              \A s \in Elems(call.catalog[R]) :
                 \E a \in {"read", "write", "delete"}
                          \cup UNION {{x.attr_name : x \in v.extra_actions} : v \in ViewSetsOf(R)} :
                    s = R \o "." \o a
        /\ ViewSetsOf("posts") = {ViewOf("PostViewSet")}
              => /\ Elems(call.catalog["posts"])
                       = {"posts.read", "posts.write", "posts.delete", "posts.publish"}
                 /\ Len(call.catalog["posts"]) = 4

C13_Witness ==
    /\ call.op = "discover_scopes"
    /\ urlpatterns = <<"CommentViewSet", "PostViewSet">>
    /\ call.catalog["posts"] = <<"posts.delete", "posts.publish", "posts.read", "posts.write">>
    /\ call.catalog["comments"] = <<"comments.flag", "comments.read">>

\* C14: every resource key of the mapping returned by
\* discover_scopes_from_urls, and by discover_scopes_with_apps, has a
\* non-empty list of scopes.
C14_NoEmptyResource ==
    call.op = "discover_scopes" =>
        /\ \A R \in DOMAIN call.catalog : Len(call.catalog[R]) > 0
        /\ \A R \in DOMAIN call.with_apps : Len(call.with_apps[R].scope_list) > 0

\* the standard action a CRUD handler name stands for
CrudAction(h) ==
    IF h \in {"list", "retrieve"} THEN "read"
    ELSE IF h \in {"create", "update", "partial_update"} THEN "write"
    ELSE "delete"

\* the standard actions of the CRUD handlers a class has
HandlerActions(v) == {CrudAction(h) : h \in v.attrs \cap CrudActions}

\* the standard action the HTTP method of a sub-route maps onto, "" if none
HttpSemantics(method) ==
    IF method \in {"GET", "HEAD", "OPTIONS"} THEN "read"
    ELSE IF method \in {"POST", "PUT", "PATCH"} THEN "write"
    ELSE IF method = "DELETE" THEN "delete"
    ELSE ""

\* the contributions of the sub-routes of v when the HTTP method decides
ByHttpSemantics(v) ==
    UNION { {IF HttpSemantics(e.method) # "" THEN HttpSemantics(e.method) ELSE x.attr_name
             : e \in x.mapping} : x \in v.extra_actions }

\* the contributions of the sub-routes of v when the bound handler's name
\* decides
ByHandlerName(v) ==
    UNION { {IF e.handler \in CrudActions THEN CrudAction(e.handler) ELSE x.attr_name
             : e \in x.mapping} : x \in v.extra_actions }

\* C15 as stated: a custom sub-route whose HTTP semantics map onto read,
\* write or delete contributes that standard action instead of its own
\* name, so the catalog of a resource is the standard actions of its
\* handlers and of the HTTP methods of its sub-routes.
C15_Original ==
    call.op = "discover_scopes" =>
        \A R \in DOMAIN call.catalog :
            Elems(call.catalog[R])
              = {R \o "." \o a : a \in UNION {HandlerActions(v) \cup ByHttpSemantics(v)
                                               : v \in ViewSetsOf(R)}}

\* C15: each entry of a custom sub-route's method mapping contributes the
\* name of the custom action that owns the mapping, unless the handler the
\* entry binds is named list, retrieve, create, update, partial_update or
\* destroy, and then it contributes read, write or delete instead; the HTTP
\* method of the sub-route plays no part.
C15_CustomActionContribution ==
    call.op = "discover_scopes" =>
        \A R \in DOMAIN call.catalog :
            Elems(call.catalog[R])
              = {R \o "." \o a : a \in UNION {HandlerActions(v) \cup ByHandlerName(v)
                                               : v \in ViewSetsOf(R)}}

C15_Witness ==
    /\ call.op = "discover_scopes"
    /\ urlpatterns = <<"FeedViewSet", "CommentViewSet", "PostViewSet">>
    /\ call.catalog["feed"] = <<"feed.recent", "feed.write">>
    /\ call.catalog["comments"] = <<"comments.flag", "comments.read">>
    /\ "posts.publish" \in Elems(call.catalog["posts"])

\* the patterns p enumerated in the order f, a permutation of 1..Len(p)
Reordered(p, f) == [i \in 1..Len(p) |-> p[f[i]]]

\* C16: for every permutation of the order in which the URL patterns are
\* enumerated discover_scopes_from_urls returns the same keys with the same
\* lists; each list is in ascending order of action name; the viewsets that
\* resolve to one resource name are merged by set union under that key.
C16_CatalogDeterministic ==
    call.op = "discover_scopes" =>
        /\ \A f \in Permutations(1..Len(urlpatterns)) :
              discover_scopes_from_urls(Reordered(urlpatterns, f)) = call.catalog
        /\ \A R \in DOMAIN call.catalog :
              /\ \A i, j \in 1..Len(call.catalog[R]) :
                    i < j => StrLess(call.catalog[R][i], call.catalog[R][j])
              /\ Elems(call.catalog[R])
                    = UNION { {R \o "." \o a : a \in get_viewset_actions(v)}
                              : v \in ViewSetsOf(R) }

C16_Witness ==
    /\ call.op = "discover_scopes"
    /\ urlpatterns = <<"PostAdminViewSet", "OrderItemViewSet", "PostViewSet">>
    /\ call.catalog["posts"]
         = <<"posts.delete", "posts.feature", "posts.publish", "posts.read", "posts.write">>
    /\ discover_scopes_from_urls(<<"PostViewSet", "PostAdminViewSet", "OrderItemViewSet">>)
         = call.catalog

----------------------------------------------------------------------------
(* The request pipeline of a service whose only authenticator is           *)
(* APIKeyAuthentication and whose permission class is HasAPIKeyOrGroupScope *)

\* the Authorization header values clients send ("" is no header); the
\* server hands them over without surrounding whitespace
AuthHeaders ==
    {"", "Api-Key", "Api-Keyp1.s1", "Api-Key p1.s1", "api-key p1.s1", "API-KEY  p1.s1",
     "Api-Key\tp1.s1", "Api-Key p1.s1 x", "Api-Key p1.bad", "Api-Key p2.s1",
     "Bearer p1.s1", "bearer p1.s1", "Token p1.s1"}

\* the scopes operators put on the key
AuthKeyScopes == {{}, {"posts.read"}}

\* the routes requests are sent to
AuthRoutes ==
    {[method |-> "GET", action |-> Str("list")], [method |-> "DELETE", action |-> Str("destroy")]}

\* the keyword is read once at import, tracking is off unless overridden
InitAuth ==
    /\ apiKeys = <<>>
    /\ groups = {}
    /\ scopedGroups = <<>>
    /\ userGroups = [u \in Users |-> {}]
    /\ superusers = {}
    /\ urlpatterns = UrlConf
    /\ pc = "idle"
    /\ call = NoCall
    /\ now = 0
    /\ settings \in {[DefaultSettings EXCEPT !.keyword = kw] : kw \in {None, Str("Bearer")}}
    /\ http = NoHttp
    /\ legacyKeys = <<>>
    /\ builders = [c \in Callers |-> NoBuild]

\* an operator revokes a key
RevokeKey(k) ==
    /\ pc = "idle"
    /\ k \in DOMAIN apiKeys
    /\ ~apiKeys[k].revoked
    /\ apiKeys' = [apiKeys EXCEPT ![k].revoked = TRUE]
    /\ UNCHANGED <<groups, scopedGroups, userGroups, superusers, urlpatterns, pc, call>>
    /\ UNCHANGED authVars

\* an operator edits a key's expiry date
SetExpiry(k, e) ==
    /\ pc = "idle"
    /\ k \in DOMAIN apiKeys
    /\ apiKeys[k].expiry_date # e
    /\ apiKeys' = [apiKeys EXCEPT ![k].expiry_date = e]
    /\ UNCHANGED <<groups, scopedGroups, userGroups, superusers, urlpatterns, pc, call>>
    /\ UNCHANGED authVars

\* time passes between requests
Tick ==
    /\ pc = "idle"
    /\ now < MaxTime
    /\ now' = now + 1
    /\ UNCHANGED <<store, pc, call, settings, http, legacyKeys, builders>>

\* SCOPED_PERMISSIONS_TRACK_LAST_USED is set to b
OverrideSettings(b) ==
    /\ pc = "idle"
    /\ settings.track_last_used # b
    /\ settings' = [settings EXCEPT !.track_last_used = b]
    /\ UNCHANGED <<store, pc, call, now, http, legacyKeys, builders>>

\* a request arrives and is authenticated: a raised AuthenticationFailed
\* ends it, otherwise request.auth and request.user are set (no credential
\* leaves AnonymousUser)
Authenticate(header) ==
    /\ pc = "idle"
    /\ LET r == authenticate(header, apiKeys, settings, now)
       IN  /\ apiKeys' = r.keys
           /\ http' = [NoHttp EXCEPT !.header = header, !.result = r.result,
                                    !.validated = r.validated, !.key = r.key,
                                    !.detail = r.detail, !.auth = r.auth,
                                    !.user = IF r.result = "ok" THEN "None" ELSE "AnonymousUser",
                                    !.response = IF r.result = "AuthenticationFailed"
                                                 THEN "AuthenticationFailed" ELSE ""]
           /\ pc' = IF r.result = "AuthenticationFailed" THEN "done" ELSE "permission"
    /\ UNCHANGED <<groups, scopedGroups, userGroups, superusers, urlpatterns, call, now, settings,
                   legacyKeys, builders>>

\* the permission check of the request; a denial without a successful
\* authenticator is NotAuthenticated
CheckPermission(name, route) ==
    /\ pc = "permission"
    /\ name \in Elems(urlpatterns)
    /\ LET view == ViewOf(name)
           request == Request(http.auth, http.user, name, route.method,
                              view.is_viewset, route.action)
           allowed == has_permission(request)
       IN  /\ route \in Routes(view)
           /\ http' = [http EXCEPT !.checked = TRUE, !.allowed = allowed,
                                   !.response = IF allowed THEN "OK"
                                                ELSE IF http.result = "ok" THEN "PermissionDenied"
                                                ELSE "NotAuthenticated"]
    /\ pc' = "done"
    /\ UNCHANGED <<store, call, now, settings, legacyKeys, builders>>

\* the response is sent
Respond ==
    /\ pc = "done"
    /\ pc' = "idle"
    /\ http' = NoHttp
    /\ UNCHANGED <<store, call, now, settings, legacyKeys, builders>>

NextAuth ==
    \/ \E k \in KeyIds, S \in AuthKeyScopes : CreateKey(k, S)
    \/ \E k \in KeyIds : DeleteKey(k)
    \/ \E k \in KeyIds : RevokeKey(k)
    \/ \E k \in KeyIds, e \in {NoTime} \cup {At(t) : t \in 0..MaxTime} : SetExpiry(k, e)
    \/ Tick
    \/ \E b \in BOOLEAN : OverrideSettings(b)
    \/ \E header \in AuthHeaders : Authenticate(header)
    \/ \E route \in AuthRoutes : CheckPermission("PostViewSet", route)
    \/ Respond

SpecAuth == InitAuth /\ [][NextAuth]_vars

\* a request is in the pipeline, past authentication
InFlight == pc \in {"permission", "done"}

\* the stored keys whose hash the presented secret verifies against
Matching(secret) == {k \in DOMAIN apiKeys : apiKeys[k].hashed_key = Hash(secret)}

\* C17: a presented secret fails with AuthenticationFailed whenever no
\* stored key matches it, or the matched key is revoked, or its expiry is
\* in the past, whatever the key's scopes; a failed authentication returns
\* no principal and the permission check is never run for the request; a
\* key with a null expiry is never rejected as expired.
C17_AuthenticationFails ==
    (InFlight /\ http.validated) =>
        LET M == Matching(http.key)
        IN  /\ ( \/ M = {}
                 \/ \E k \in M : apiKeys[k].revoked
                 \/ \E k \in M : apiKeys[k].expiry_date.some /\ apiKeys[k].expiry_date.val < now )
                  => http.result = "AuthenticationFailed"
            /\ http.result = "AuthenticationFailed"
                  => /\ http.auth = "None"
                     /\ ~http.checked
                     /\ pc = "done"
                     /\ http.response = "AuthenticationFailed"
            /\ (M # {} /\ \A k \in M : ~apiKeys[k].expiry_date.some)
                  => http.detail # "API key has expired"

C17_Witness ==
    /\ pc = "done"
    /\ http.validated
    /\ http.key = "p1.s1"
    /\ "k1" \in DOMAIN apiKeys
    /\ apiKeys["k1"].scopes = {"posts.read"}
    /\ ~apiKeys["k1"].revoked
    /\ apiKeys["k1"].expiry_date = At(1)
    /\ now = 2
    /\ http.result = "AuthenticationFailed"
    /\ ~http.checked

\* C18: the reason string tells an unknown secret, a revoked key and an
\* expired key apart: the revoked case names revocation, the expired case
\* expiry, and an unknown secret gets neither; all three are the same
\* AuthenticationFailed outcome.
C18_DistinctReasons ==
    (InFlight /\ http.result = "AuthenticationFailed") =>
        LET M == Matching(http.key)
        IN  /\ http.response = "AuthenticationFailed"
            /\ M = {} => http.detail = "Invalid API key"
            /\ (\E k \in M : apiKeys[k].revoked)
                  => http.detail = "API key has been revoked"
            /\ (M # {} /\ \A k \in M : ~apiKeys[k].revoked)
                  => http.detail = "API key has expired"

\* s has no whitespace character; s is whitespace only
NoSpace(s) == \A i \in 1..Len(s) : SubSeq(s, i, i) \notin Whitespace

AllSpace(s) == \A i \in 1..Len(s) : SubSeq(s, i, i) \in Whitespace

\* the configured keyword, 'Api-Key' when none is configured
ConfiguredKeyword == IF settings.keyword.some THEN settings.keyword.val ELSE "Api-Key"

\* the secrets header carries under keyword kw: header is a scheme token
\* equal to kw ignoring case, then whitespace, then the secret
Credentials(header, kw) ==
    { SubSeq(header, q[2] + 1, Len(header)) :
        q \in { p \in (1..Len(header)) \X (1..Len(header)) :
                  /\ p[1] < p[2]
                  /\ p[2] < Len(header)
                  /\ NoSpace(SubSeq(header, 1, p[1]))
                  /\ AllSpace(SubSeq(header, p[1] + 1, p[2]))
                  /\ SubSeq(header, p[2] + 1, p[2] + 1) \notin Whitespace
                  /\ lower(SubSeq(header, 1, p[1])) = lower(kw) } }

C20_LastUsedOnlyOnTrackedSuccess ==
    [][ /\ \A k \in DOMAIN apiKeys \cap DOMAIN apiKeys' :
              apiKeys'[k].last_used_at # apiKeys[k].last_used_at
                 => /\ pc = "idle"
                    /\ http'.validated
                    /\ http'.result = "ok"
                    /\ http'.auth = k
                    /\ settings.track_last_used
                    /\ apiKeys'[k].last_used_at = At(now)
        /\ (pc = "idle" /\ http'.validated /\ http'.result = "ok" /\ settings.track_last_used)
              => apiKeys'[http'.auth].last_used_at = At(now)
        /\ (pc = "idle" /\ http'.validated
                /\ (http'.result # "ok" \/ ~settings.track_last_used))
              => apiKeys' = apiKeys
      ]_vars

\* a key used at time 1 and again, with tracking on, at time 2
C20_Witness ==
    /\ pc = "permission"
    /\ http.result = "ok"
    /\ http.auth = "k1"
    /\ settings.track_last_used
    /\ now = 2
    /\ apiKeys["k1"].last_used_at = At(2)
    /\ apiKeys["k1"].expiry_date = At(2)

----------------------------------------------------------------------------
(* authenticate_credentials step by step, with the operator's admin saves   *)
(* and the outcome of the last-used write interleaved                       *)

\* the secrets presented
TrackSecrets == {"p1.s1", "p1.bad"}

\* authenticate_credentials(key) up to the last-used update: the lookup
\* loads the row into memory, the revoked and expiry tests read that copy
LoadKey(key) ==
    /\ pc = "idle"
    /\ LET api_key == get_from_key(apiKeys, key)
           started == [NoHttp EXCEPT !.validated = TRUE, !.key = key,
                                     !.result = "AuthenticationFailed",
                                     !.response = "AuthenticationFailed"]
       IN  IF api_key = "DoesNotExist"
           THEN /\ http' = [started EXCEPT !.detail = "Invalid API key"]
                /\ pc' = "done"
           ELSE IF apiKeys[api_key].revoked
           THEN /\ http' = [started EXCEPT !.detail = "API key has been revoked"]
                /\ pc' = "done"
           ELSE IF has_expired(apiKeys[api_key], now)
           THEN /\ http' = [started EXCEPT !.detail = "API key has expired"]
                /\ pc' = "done"
           ELSE /\ http' = [started EXCEPT !.result = IF settings.track_last_used THEN "" ELSE "ok",
                                          !.response = "",
                                          !.auth = api_key,
                                          !.loaded = <<apiKeys[api_key]>>]
                /\ pc' = IF settings.track_last_used THEN "saving" ELSE "done"
    /\ UNCHANGED <<store, call, now, settings, legacyKeys, builders>>

\* the admin change form of key k is saved with these values while a
\* request may be in flight; a revocation cannot be undone
AdminSave(k, revoked, S, e) ==
    /\ k \in DOMAIN apiKeys
    /\ apiKeys[k].revoked => revoked
    /\ <<apiKeys[k].revoked, apiKeys[k].scopes, apiKeys[k].expiry_date>> # <<revoked, S, e>>
    /\ apiKeys' = [apiKeys EXCEPT ![k].revoked = revoked, ![k].scopes = S,
                                  ![k].expiry_date = e]
    /\ UNCHANGED <<groups, scopedGroups, userGroups, superusers, urlpatterns, pc, call>>
    /\ UNCHANGED authVars

\* api_key.update_last_used(): the copy gets timezone.now() and is saved
\* with update_fields=['last_used_at'].  written is whether the database
\* accepts the write; an error raised by save() is not caught in
\* authenticate_credentials and leaves the view as an unhandled exception
UpdateLastUsed(written) ==
    /\ pc = "saving"
    /\ LET obj == [http.loaded[1] EXCEPT !.last_used_at = At(now)]
       IN  IF written
           THEN /\ apiKeys' = save(apiKeys, http.auth, obj, {"last_used_at"})
                /\ http' = [http EXCEPT !.result = "ok", !.loaded = <<obj>>]
           ELSE /\ apiKeys' = apiKeys
                /\ http' = [http EXCEPT !.result = "DatabaseError", !.auth = "None",
                                        !.response = "ServerError",
                                        !.write_failed = TRUE, !.loaded = <<obj>>]
    /\ pc' = "done"
    /\ UNCHANGED <<groups, scopedGroups, userGroups, superusers, urlpatterns, call, now, settings,
                   legacyKeys, builders>>

NextTrack ==
    \/ \E k \in KeyIds, S \in AuthKeyScopes : CreateKey(k, S)
    \/ \E k \in KeyIds, revoked \in BOOLEAN, S \in AuthKeyScopes,
          e \in {NoTime} \cup {At(t) : t \in 0..MaxTime} : AdminSave(k, revoked, S, e)
    \/ Tick
    \/ \E b \in BOOLEAN : OverrideSettings(b)
    \/ \E key \in TrackSecrets : LoadKey(key)
    \/ \E written \in BOOLEAN : UpdateLastUsed(written)
    \/ Respond

SpecTrack == Init /\ [][NextTrack]_vars

\* C21: when usage tracking is enabled and the write of last_used_at fails,
\* authentication of the otherwise valid key still succeeds and returns the
\* key as principal; the failure does not reach the request.
C21_WriteFailureDropped ==
    (pc = "done" /\ http.write_failed) =>
        /\ http.result = "ok"
        /\ http.auth \in DOMAIN apiKeys
        /\ http.response # "ServerError"

\* C28: the save of update_last_used writes last_used_at only: the revoked
\* flag, the scopes and the expiry that are stored when the save runs, the
\* operator's edits since the key was loaded included, are still stored
\* after it.
C28_SaveTouchesLastUsedOnly ==
    [][ (pc = "saving" /\ pc' = "done") =>
            \A k \in DOMAIN apiKeys :
                /\ k \in DOMAIN apiKeys'
                /\ apiKeys'[k].revoked = apiKeys[k].revoked
                /\ apiKeys'[k].scopes = apiKeys[k].scopes
                /\ apiKeys'[k].expiry_date = apiKeys[k].expiry_date
      ]_vars

\* the key was revoked and its scopes and expiry edited after it was
\* loaded; the save has run
C28_Witness ==
    /\ pc = "done"
    /\ http.result = "ok"
    /\ http.auth = "k1"
    /\ ~http.loaded[1].revoked
    /\ http.loaded[1].scopes = {}
    /\ http.loaded[1].expiry_date = NoTime
    /\ apiKeys["k1"].revoked
    /\ apiKeys["k1"].scopes = {"posts.read"}
    /\ apiKeys["k1"].expiry_date = At(0)
    /\ apiKeys["k1"].last_used_at = At(now)

----------------------------------------------------------------------------
(* management/commands/migrate_api_keys.py *)

\* the ids of the legacy keys: prefix "." hash, as create_key assigns them
LegacyIds == {"p1.h1", "p2.h2"}

LegacyName == [id \in LegacyIds |-> "Legacy " \o BeforeDot(id)]

\* the row APIKey.objects.create_key stores
NewLegacyKey(id) ==
    [name |-> LegacyName[id], prefix |-> BeforeDot(id),
     hashed_key |-> SubSeq(id, Len(BeforeDot(id)) + 2, Len(id)),
     created |-> now, revoked |-> FALSE, expiry_date |-> NoTime]

\* one pass of the loop that counts a key as migrated only when it is
\* created
migrate_one_dry_uncounted(old_id, legacy, existing_prefixes, dry_run, acc) ==
    LET old_key == legacy[old_id]
    IN  IF acc.error THEN acc
        ELSE IF old_key.prefix \in existing_prefixes
        THEN [acc EXCEPT !.skipped = @ + 1]
        ELSE IF dry_run THEN acc
        ELSE IF old_id \in DOMAIN acc.scoped \/ old_key.prefix \in Prefixes(acc.scoped)
        THEN [acc EXCEPT !.error = TRUE]
        ELSE [acc EXCEPT !.migrated = @ + 1,
                         !.scoped = Put(acc.scoped, old_id,
                                        [scopes |-> {}, name |-> old_key.name,
                                         created |-> old_key.created,
                                         prefix |-> old_key.prefix,
                                         hashed_key |-> old_key.hashed_key,
                                         revoked |-> old_key.revoked,
                                         expiry_date |-> old_key.expiry_date,
                                         last_used_at |-> NoTime])]

\* one pass of the loop that creates the key with the defaults of a new
\* key instead of the legacy revoked flag and expiry
migrate_one_fresh_key(old_id, legacy, existing_prefixes, dry_run, acc) ==
    LET old_key == legacy[old_id]
    IN  IF acc.error THEN acc
        ELSE IF old_key.prefix \in existing_prefixes
        THEN [acc EXCEPT !.skipped = @ + 1]
        ELSE IF dry_run THEN [acc EXCEPT !.migrated = @ + 1]
        ELSE IF old_id \in DOMAIN acc.scoped \/ old_key.prefix \in Prefixes(acc.scoped)
        THEN [acc EXCEPT !.error = TRUE]
        ELSE [acc EXCEPT !.migrated = @ + 1,
                         !.scoped = Put(acc.scoped, old_id,
                                        [scopes |-> {}, name |-> old_key.name,
                                         created |-> old_key.created,
                                         prefix |-> old_key.prefix,
                                         hashed_key |-> old_key.hashed_key,
                                         revoked |-> FALSE,
                                         expiry_date |-> NoTime,
                                         last_used_at |-> NoTime])]

\* one pass of the loop without the test for an existing prefix
migrate_one_no_skip(old_id, legacy, existing_prefixes, dry_run, acc) ==
    LET old_key == legacy[old_id]
    IN  IF acc.error THEN acc
        ELSE IF dry_run THEN [acc EXCEPT !.migrated = @ + 1]
        ELSE IF old_id \in DOMAIN acc.scoped \/ old_key.prefix \in Prefixes(acc.scoped)
        THEN [acc EXCEPT !.error = TRUE]
        ELSE [acc EXCEPT !.migrated = @ + 1,
                         !.scoped = Put(acc.scoped, old_id,
                                        [scopes |-> {}, name |-> old_key.name,
                                         created |-> old_key.created,
                                         prefix |-> old_key.prefix,
                                         hashed_key |-> old_key.hashed_key,
                                         revoked |-> old_key.revoked,
                                         expiry_date |-> old_key.expiry_date,
                                         last_used_at |-> NoTime])]

\* one pass of the loop over legacy_keys.  acc holds the scoped table, the
\* two counters and whether create() has raised IntegrityError (the id or
\* the prefix is already stored), which ends the command
migrate_one(old_id, legacy, existing_prefixes, dry_run, acc) ==
    LET old_key == legacy[old_id]
    IN  IF acc.error THEN acc
        ELSE IF old_key.prefix \in existing_prefixes
        THEN [acc EXCEPT !.skipped = @ + 1]
        ELSE IF dry_run THEN [acc EXCEPT !.migrated = @ + 1]
        ELSE IF old_id \in DOMAIN acc.scoped \/ old_key.prefix \in Prefixes(acc.scoped)
        THEN [acc EXCEPT !.error = TRUE]
        ELSE [acc EXCEPT !.migrated = @ + 1,
                         !.scoped = Put(acc.scoped, old_id,
                                        [scopes |-> {}, name |-> old_key.name,
                                         created |-> old_key.created,
                                         prefix |-> old_key.prefix,
                                         hashed_key |-> old_key.hashed_key,
                                         revoked |-> old_key.revoked,
                                         expiry_date |-> old_key.expiry_date,
                                         last_used_at |-> NoTime])]

RECURSIVE migrate_loop(_, _, _, _, _)
\* for old_key in legacy_keys
migrate_loop(order, legacy, existing_prefixes, dry_run, acc) ==
    IF order = <<>> THEN acc
    ELSE migrate_loop(Tail(order), legacy, existing_prefixes, dry_run,
                      migrate_one(Head(order), legacy, existing_prefixes, dry_run, acc))

\* Command.handle: existing_prefixes is read once, before the loop
handle(legacy, scoped, dry_run) ==
    migrate_loop(sorted(DOMAIN legacy), legacy, Prefixes(scoped), dry_run,
                 [scoped |-> scoped, migrated |-> 0, skipped |-> 0, error |-> FALSE])

\* APIKey.objects.create_key(...)
CreateLegacyKey(id) ==
    /\ pc = "idle"
    /\ id \notin DOMAIN legacyKeys
    /\ legacyKeys' = Put(legacyKeys, id, NewLegacyKey(id))
    /\ UNCHANGED <<store, pc, call, now, settings, http, builders>>

\* an operator revokes a legacy key or edits its expiry
EditLegacyKey(id, revoked, e) ==
    /\ pc = "idle"
    /\ id \in DOMAIN legacyKeys
    /\ legacyKeys[id].revoked => revoked
    /\ <<legacyKeys[id].revoked, legacyKeys[id].expiry_date>> # <<revoked, e>>
    /\ legacyKeys' = [legacyKeys EXCEPT ![id].revoked = revoked, ![id].expiry_date = e]
    /\ UNCHANGED <<store, pc, call, now, settings, http, builders>>

\* manage.py migrate_api_keys [--dry-run], possibly straight after a
\* previous run of the command
Migrate(dry_run) ==
    /\ pc = "idle" \/ (pc = "done" /\ call.op = "migrate")
    /\ LET r == handle(legacyKeys, apiKeys, dry_run)
       IN  /\ apiKeys' = r.scoped
           /\ call' = [NoCall EXCEPT !.op = "migrate", !.dry_run = dry_run,
                                     !.migrated = r.migrated, !.skipped = r.skipped,
                                     !.error = r.error]
    /\ pc' = "done"
    /\ UNCHANGED <<groups, scopedGroups, userGroups, superusers, urlpatterns>>
    /\ UNCHANGED authVars

NextMigrate ==
    \/ \E k \in KeyIds, S \in AuthKeyScopes : CreateKey(k, S)
    \/ \E k \in KeyIds \cup LegacyIds : DeleteKey(k)
    \/ \E id \in LegacyIds : CreateLegacyKey(id)
    \/ \E id \in LegacyIds, revoked \in BOOLEAN, e \in {NoTime, At(1)} :
          EditLegacyKey(id, revoked, e)
    \/ Tick
    \/ \E dry_run \in BOOLEAN : Migrate(dry_run)
    \/ Return

SpecMigrate == Init /\ [][NextMigrate]_vars

\* C22: a dry run leaves the legacy and the scoped table unchanged and
\* reports the migrated and skipped counts that a real run from the same
\* state reports; two legacy keys of which one shares its prefix with a
\* scoped key give one migrated and one skipped in both modes.
C22_DryRunFrame ==
    [][ call'.op = "migrate" =>
            LET other == handle(legacyKeys, apiKeys, ~call'.dry_run)
            IN  /\ call'.dry_run => (apiKeys' = apiKeys /\ legacyKeys' = legacyKeys)
                /\ call'.migrated = other.migrated
                /\ call'.skipped = other.skipped
                /\ ~call'.error /\ ~other.error
                /\ (DOMAIN legacyKeys = {"p1.h1", "p2.h2"} /\ Prefixes(apiKeys) = {"p1"})
                      => (call'.migrated = 1 /\ call'.skipped = 1)
      ]_vars

C22_Witness ==
    /\ pc = "done"
    /\ call.op = "migrate"
    /\ call.dry_run
    /\ call.migrated = 1
    /\ call.skipped = 1
    /\ DOMAIN legacyKeys = {"p1.h1", "p2.h2"}
    /\ DOMAIN apiKeys = {"k1"}

C29_Idempotent ==
    [][ /\ (call.op = "migrate" /\ ~call.dry_run /\ call'.op = "migrate" /\ ~call'.dry_run)
              => /\ apiKeys' = apiKeys
                 /\ call'.migrated = 0
                 /\ call'.skipped = Cardinality(DOMAIN legacyKeys)
        /\ \A a, b \in DOMAIN apiKeys' :
              apiKeys'[a].prefix = apiKeys'[b].prefix => a = b
      ]_vars

\* the second of two runs in a row
C29_Witness ==
    /\ pc = "done"
    /\ call.op = "migrate"
    /\ ~call.dry_run
    /\ call.migrated = 0
    /\ call.skipped = 2
    /\ DOMAIN apiKeys = {"p1.h1", "p2.h2"}
    /\ DOMAIN legacyKeys = {"p1.h1", "p2.h2"}


----------------------------------------------------------------------------
(* Group-Scope bindings and the groups that own them *)

\* the scopes contributed by the bindings of the groups in G
BindingScopes(G) ==
    UNION {scopedGroups[g] : g \in G \cap DOMAIN scopedGroups}

\* no binding and no membership refers to a group that does not exist, and
\* what a call resolves or accepts comes from the bindings of existing
\* groups the user belongs to
BindingsOfExistingGroups ==
    /\ DOMAIN scopedGroups \subseteq groups
    /\ \A u \in Users : userGroups[u] \subseteq groups
    /\ (call.op = "get_user_scopes") =>
          /\ call.scopes = BindingScopes(userGroups[call.user] \cap groups)
          /\ call.scopes2 = call.scopes
    /\ ( /\ call.op = "has_permission"
         /\ call.request.auth \notin DOMAIN apiKeys
         /\ call.request.user \in Users
         /\ call.request.user \notin superusers
         /\ Truthy(call.required)
         /\ call.result )
          => call.required.val \in BindingScopes(userGroups[call.request.user] \cap groups)

\* C24: a binding belongs to exactly one existing group (bindings are keyed
\* by their group, and neither a binding nor a membership refers to a group
\* that does not exist); deleting a group deletes its binding, so the
\* scopes resolved for a former member are those of the bindings of the
\* groups the member still belongs to, and a scope only the deleted group
\* contributed is neither resolved nor accepted by a later decision.
C24_BindingCascade ==
    [][ /\ BindingsOfExistingGroups'
        /\ \A g \in groups \ groups' :
              /\ g \notin DOMAIN scopedGroups'
              /\ \A u \in Users :
                    g \in userGroups[u] =>
                        /\ _get_user_scopes(u)' = BindingScopes(userGroups[u] \ {g})
                        /\ get_user_scopes(u)' = BindingScopes(userGroups[u] \ {g})
                        /\ \A s \in BindingScopes({g}) \ BindingScopes(userGroups[u] \ {g}) :
                              s \notin _get_user_scopes(u)'
      ]_vars

\* group A is gone together with its binding; alice, still a member of B
\* whose binding holds posts.delete only, is refused posts.read
C24_Witness ==
    /\ groups = {"B"}
    /\ DOMAIN scopedGroups = {"B"}
    /\ scopedGroups["B"] = {"posts.delete"}
    /\ userGroups["alice"] = {"B"}
    /\ call.op = "has_permission"
    /\ call.request.auth = "None"
    /\ call.request.user = "alice"
    /\ call.required = Str("posts.read")
    /\ call.result = FALSE


----------------------------------------------------------------------------
(* Which principal decides *)

\* the API-key policy on its own: the key's scopes against the scope the
\* view, method and action require
ApiKeyPolicy(scopes, required) ==
    \/ scopes = {}
    \/ ~Truthy(required)
    \/ required.val \in scopes

\* C26: when request.auth is a ScopedAPIKey the decision is the API-key
\* policy applied to the key's scopes and the required scope, and the
\* required scope is the one computed for the same request without a user;
\* whether request.user is absent or a user, a superuser or not, and
\* whatever groups and bindings the user has, the outcome is the same, so a
\* key that lacks the required scope is denied next to a superuser.
C26_KeyDecidesAlone ==
    KeyDecision =>
        /\ call.required = get_required_scope([call.request EXCEPT !.user = "None"])
        /\ call.result = ApiKeyPolicy(apiKeys[call.request.auth].scopes, call.required)
        /\ \A user \in RequestUsers :
              has_permission([call.request EXCEPT !.user = user]) = call.result

\* key k1 holds posts.delete only and asks for posts.read; request.user is
\* the superuser alice; the request is refused
C26_Witness ==
    /\ KeyDecision
    /\ call.request.auth = "k1"
    /\ apiKeys["k1"].scopes = {"posts.delete"}
    /\ call.request.user = "alice"
    /\ "alice" \in superusers
    /\ call.required = Str("posts.read")
    /\ call.result = FALSE


----------------------------------------------------------------------------
(* Custom actions: what the catalog publishes against what the engine
   requires.  The service registers the viewsets with @action routes. *)

CustomUrlConf == <<"PostViewSet", "CommentViewSet", "FeedViewSet">>

InitCustom ==
    /\ apiKeys = <<>>
    /\ groups = {}
    /\ scopedGroups = <<>>
    /\ userGroups = [u \in Users |-> {}]
    /\ superusers = {}
    /\ urlpatterns = CustomUrlConf
    /\ pc = "idle"
    /\ call = NoCall
    /\ now = 0
    /\ settings = DefaultSettings
    /\ http = NoHttp
    /\ legacyKeys = <<>>
    /\ builders = [c \in Callers |-> NoBuild]

\* every scope the catalog lists for a resource
CatalogScopes(resource) ==
    LET catalog == discover_scopes_from_urls(urlpatterns)
    IN  IF resource \in DOMAIN catalog THEN Elems(catalog[resource]) ELSE {}

\* the grants an operator picks from the catalog: all scopes of one resource
CatalogGrants == {CatalogScopes(get_resource_name(ViewOf(n))) : n \in Elems(CustomUrlConf)}

NextCustom ==
    \/ \E k \in KeyIds, S \in CatalogGrants : CreateKey(k, S)
    \/ \E k \in KeyIds : DeleteKey(k)
    \/ \E auth \in KeyIds \cup {"None"}, user \in RequestUsers, name \in ViewNames,
          route \in UNION {Routes(v) : v \in ViewClasses} :
            HasPermission(auth, user, name, route)
    \/ Return

SpecCustom == InitCustom /\ [][NextCustom]_vars

\* the (method, view.action) pairs of the @action routes of class v
CustomRoutes(v) ==
    UNION { {[method |-> e.method, action |-> Str(e.handler)] : e \in x.mapping}
            : x \in v.extra_actions }

\* the request just decided came in on an @action route of a viewset with
\* an explicit scope_resource
CustomRouteDecision ==
    /\ call.op = "has_permission"
    /\ LET v == ViewOf(call.request.view)
       IN  /\ v.is_viewset
           /\ Truthy(v.scope_resource)
           /\ ~v.has_required_scope
           /\ [method |-> call.request.method, action |-> call.request.action] \in CustomRoutes(v)

\* C27: on every @action route of a viewset with an explicit
\* scope_resource, for every method the route serves, the scope the engine
\* requires is one the catalog lists for the resource, and a key granted
\* every catalog scope of the resource is allowed.
C27_CustomActionsAgree ==
    CustomRouteDecision =>
        LET resource == ViewOf(call.request.view).scope_resource.val
        IN  /\ call.required.val \in CatalogScopes(resource)
            /\ ( /\ call.request.auth \in DOMAIN apiKeys
                 /\ CatalogScopes(resource) \subseteq apiKeys[call.request.auth].scopes )
                  => call.result


----------------------------------------------------------------------------
(* utils.py: the catalog grouped for display *)

RECURSIVE AfterDot(_)
\* scope.split(".", 1)[1]
AfterDot(scope) ==
    IF scope = "" THEN ""
    ELSE IF SubSeq(scope, 1, 1) = "." THEN SubSeq(scope, 2, Len(scope))
    ELSE AfterDot(SubSeq(scope, 2, Len(scope)))

\* resource.replace("_", " ").title()
Display(name) == title(replace(name, "_", " "))

\* the (scope, action_display) tuples of one resource
DisplayTuples(scope_list) ==
    [i \in 1..Len(scope_list) |-> <<scope_list[i], Display(AfterDot(scope_list[i]))>>]

RECURSIVE group_by_resource(_, _, _)
\* the loop over sorted(scopes_by_resource.items()): grouped[display] is
\* set to the tuples of the resource
group_by_resource(order, scopes_by_resource, grouped) ==
    IF order = <<>> THEN grouped
    ELSE LET resource == Head(order)
             resource_display == Display(resource)
         IN  group_by_resource(Tail(order), scopes_by_resource,
                Put(grouped, resource_display, DisplayTuples(scopes_by_resource[resource])))

get_scopes_grouped_by_resource(url_patterns) ==
    LET scopes_by_resource == discover_scopes_from_urls(url_patterns)
    IN  group_by_resource(sorted(DOMAIN scopes_by_resource), scopes_by_resource, <<>>)

RECURSIVE group_by_app(_, _, _)
\* the loop over sorted(scopes_with_apps.items()):
\* grouped[app_label][display] is set to the tuples of the resource
group_by_app(order, scopes_with_apps, grouped) ==
    IF order = <<>> THEN grouped
    ELSE LET resource == Head(order)
             app_label == scopes_with_apps[resource].app_label
             scope_list == scopes_with_apps[resource].scope_list
             of_app == IF app_label \in DOMAIN grouped THEN grouped[app_label] ELSE <<>>
         IN  group_by_app(Tail(order), scopes_with_apps,
                Put(grouped, app_label,
                    Put(of_app, Display(resource), DisplayTuples(scope_list))))

get_scopes_grouped_by_app(url_patterns) ==
    LET scopes_with_apps == discover_scopes_with_apps(url_patterns)
    IN  group_by_app(sorted(DOMAIN scopes_with_apps), scopes_with_apps, <<>>)

\* the views the URL configuration of the grouped display is assembled from
GroupingViews ==
    {"PostViewSet", "UserProfileViewSet", "CommentViewSet",
     "OrderItemViewSet", "OrderItemV2ViewSet"}

\* the admin form asks for the catalog and its two groupings
GroupScopes ==
    /\ pc = "idle"
    /\ call' = [NoCall EXCEPT !.op = "get_scopes_grouped",
                              !.catalog = discover_scopes_from_urls(urlpatterns),
                              !.by_resource = get_scopes_grouped_by_resource(urlpatterns),
                              !.by_app = get_scopes_grouped_by_app(urlpatterns)]
    /\ pc' = "done"
    /\ UNCHANGED store
    /\ UNCHANGED authVars

NextGrouping ==
    \/ \E name \in GroupingViews : RegisterView(name)
    \/ GroupScopes
    \/ Return

SpecGrouping == InitCatalog /\ [][NextGrouping]_vars

\* the scopes listed in the groups of a grouping by resource
ScopesByResource(grouped) ==
    UNION {{grouped[d][i][1] : i \in 1..Len(grouped[d])} : d \in DOMAIN grouped}

\* the number of places of a grouping by resource that hold scope s
TimesListed(grouped, s) ==
    Cardinality(UNION {{<<d, i>> : i \in {j \in 1..Len(grouped[d]) : grouped[d][j][1] = s}}
                       : d \in DOMAIN grouped})

\* a grouping by resource lists exactly the scopes of the catalog, each in
\* one place
PreservesCatalog(grouped, catalog) ==
    LET catalog_scopes == UNION {Elems(catalog[r]) : r \in DOMAIN catalog}
    IN  /\ ScopesByResource(grouped) = catalog_scopes
        /\ \A s \in catalog_scopes : TimesListed(grouped, s) = 1

\* C30: the scopes listed across the groups of
\* get_scopes_grouped_by_resource, and across the resource groups of all
\* apps of get_scopes_grouped_by_app, are exactly the scopes of the
\* catalog, each unchanged and in one place, and two distinct resource
\* names have distinct display groups.
C30_GroupingPreservesCatalog ==
    call.op = "get_scopes_grouped" =>
        /\ PreservesCatalog(call.by_resource, call.catalog)
        /\ \A a \in DOMAIN call.by_app :
              PreservesCatalog(call.by_app[a],
                  [r \in {x \in DOMAIN call.catalog :
                             discover_scopes_with_apps(urlpatterns)[x].app_label = a}
                     |-> call.catalog[r]])
        /\ \A r1, r2 \in DOMAIN call.catalog : r1 # r2 => Display(r1) # Display(r2)


----------------------------------------------------------------------------
(* The catalog functions called concurrently.  Each call builds its
   dictionaries in its own frame, one URL pattern per step, and returns the
   formatted result; the URL configuration may grow while calls run. *)

BuildKinds == {"discover_scopes_from_urls", "discover_scopes_with_apps"}

\* the views of the URL configuration read by concurrent callers
RebuildViews == {"PostViewSet", "CommentViewSet", "HealthView"}

\* a write to the scopes dict that every caller's frame refers to
SetScopes_shared(b, c, scopes) ==
    [x \in Callers |-> IF x = c \/ b[x].pc = "building"
                       THEN [b[x] EXCEPT !.scopes = scopes] ELSE b[x]]

\* a write to the scopes dict of caller c's frame
SetScopes(b, c, scopes) ==
    [b EXCEPT ![c].scopes = scopes]

\* the function is entered: scopes = {}, app_labels = {}, and the loop over
\* resolver.url_patterns starts
BeginBuild(c, kind) ==
    /\ pc = "idle"
    /\ builders[c].pc # "building"
    /\ builders' = SetScopes([builders EXCEPT ![c] = [NoBuild EXCEPT !.pc = "building",
                                                                     !.kind = kind,
                                                                     !.pos = 1]],
                             c, <<>>)
    /\ UNCHANGED <<store, pc, call, now, settings, http, legacyKeys>>

\* one pass of the loop in extract_scopes
StepBuild(c) ==
    /\ pc = "idle"
    /\ builders[c].pc = "building"
    /\ builders[c].pos <= Len(urlpatterns)
    /\ LET b == builders[c]
           pattern == <<urlpatterns[b.pos]>>
       IN  builders' =
             SetScopes([builders EXCEPT
                          ![c].pos = @ + 1,
                          ![c].app_labels =
                              IF b.kind = "discover_scopes_with_apps"
                              THEN extract_app_labels(pattern, b.app_labels)
                              ELSE b.app_labels],
                       c, extract_scopes(pattern, b.scopes))
    /\ UNCHANGED <<store, pc, call, now, settings, http, legacyKeys>>

\* the loop is over: the local dicts are formatted and returned
FinishBuild(c) ==
    /\ pc = "idle"
    /\ builders[c].pc = "building"
    /\ builders[c].pos > Len(urlpatterns)
    /\ LET b == builders[c]
       IN  builders' =
             [builders EXCEPT
                ![c].pc = "returned",
                ![c].result =
                    IF b.kind = "discover_scopes_with_apps"
                    THEN [resource \in DOMAIN b.scopes |->
                            [app_label |-> IF resource \in DOMAIN b.app_labels
                                           THEN b.app_labels[resource] ELSE "Other",
                             scope_list |-> FormatScopes(resource, b.scopes[resource])]]
                    ELSE [resource \in DOMAIN b.scopes |->
                            FormatScopes(resource, b.scopes[resource])]]
    /\ UNCHANGED <<store, pc, call, now, settings, http, legacyKeys>>

NextRebuild ==
    \/ \E name \in RebuildViews : RegisterView(name)
    \/ \E c \in Callers, kind \in BuildKinds : BeginBuild(c, kind)
    \/ \E c \in Callers : StepBuild(c)
    \/ \E c \in Callers : FinishBuild(c)

SpecRebuild == InitCatalog /\ [][NextRebuild]_vars

\* the catalog, in the form the caller's function returns it, of the first
\* n registered patterns
CompleteCatalog(kind, n) ==
    IF kind = "discover_scopes_with_apps"
    THEN discover_scopes_with_apps(SubSeq(urlpatterns, 1, n))
    ELSE discover_scopes_from_urls(SubSeq(urlpatterns, 1, n))

\* C25: whatever other calls of the catalog functions are running, a caller
\* that got a catalog back got the complete catalog of the patterns
\* registered at some moment: every resource of that configuration is
\* present with all of its scopes, and no entry is half filled.
C25_ReadersSeeCompleteCatalog ==
    \A c \in Callers :
        builders[c].pc = "returned" =>
            \E n \in 0..Len(urlpatterns) :
                builders[c].result = CompleteCatalog(builders[c].kind, n)

\* c1 got the catalog of both registered viewsets back while c2 is in the
\* middle of its own build
C25_Witness ==
    /\ Len(urlpatterns) >= 2
    /\ builders["c1"].pc = "returned"
    /\ builders["c1"].kind = "discover_scopes_from_urls"
    /\ DOMAIN builders["c1"].result = {"posts", "comments"}
    /\ builders["c1"].result = discover_scopes_from_urls(urlpatterns)
    /\ builders["c2"].pc = "building"
    /\ builders["c2"].pos = 2
    /\ builders["c2"].scopes # <<>>

====
